---- MODULE Spec2Model ----
(***************************************************************************)
(* GEO audit tool (geo_audit): the ten criterion checks of analyzer.py,    *)
(* their aggregation in analyze_article, the report row of reporter.py and *)
(* the per-article loop of main.py.                                        *)
(*                                                                         *)
(* Texts are TLA+ strings and are examined character by character, the way *)
(* the regular expressions of analyzer.py examine them.  An HTML document  *)
(* is given by the tree html.parser builds for it (BeautifulSoup is a      *)
(* library, not code of this repository): a sequence of nodes, each a text *)
(* node or an element with attributes and children.                        *)
(***************************************************************************)
EXTENDS Integers, Sequences, FiniteSets, TLC

VARIABLES
    pc,         \* "call"/"returned": a caller's use of analyze_article;
                \* "loop"/"written": a run of main()
    articles,   \* the inputs: the loaded batch (main) or the call's arguments (api)
    strict,     \* the strict flag (args.strict, or the keyword argument)
    rows,       \* main: the report rows built so far (rows, main.py:404)
    outcomes,   \* per processed input: what analyze_article did (returned or raised)
    written,    \* main: the reports written (the CSV, then the HTML if asked for), each
                \* with its rows in the order of the file; <<>> before that
    loader,     \* a run of one of the loaders of main.py: its arguments, what it has
                \* requested so far and where it is; NoLoader outside such a run
    browser     \* the HTML report open in a browser: the variables of its script, its
                \* controls and what it has rendered; NoBrowser when none is open

vars == <<pc, articles, strict, rows, outcomes, written, loader, browser>>

(***************************************************************************)
(* Characters and character classes (the classes of Python's re on str).   *)
(***************************************************************************)
Ch(s, i) == SubSeq(s, i, i)

LowerLetters == "abcdefghijklmnopqrstuvwxyz"
UpperLetters == "ABCDEFGHIJKLMNOPQRSTUVWXYZ"
\* The accented letters a string of this module can hold (Latin-1): the accented
\* vowels used by the lexicon of analyzer.py.
LowerAccented == "áäéíóôúý"
UpperAccented == "ÁÄÉÍÓÔÚÝ"

CharsOf(s) == {Ch(s, i) : i \in 1..Len(s)}

Lower == CharsOf(LowerLetters \o LowerAccented)
Upper == CharsOf(UpperLetters \o UpperAccented)
Letter == Lower \cup Upper
Digit == CharsOf("0123456789")
\* \w
WordChar == Letter \cup Digit \cup {"_"}
\* \s, and what str.strip() removes
Space == {" ", "\n", "\t", "\r"}

\* str.lower() of one character
LowerOf ==
    [c \in Upper |->
        LET all == UpperLetters \o UpperAccented
            low == LowerLetters \o LowerAccented
            k == CHOOSE i \in 1..Len(all) : Ch(all, i) = c
        IN Ch(low, k)]

LowerCh(c) == IF c \in Upper THEN LowerOf[c] ELSE c

\* str.lower(), by halves so that the evaluation depth stays logarithmic
RECURSIVE LowerStr(_)
LowerStr(s) ==
    IF Len(s) = 0 THEN ""
    ELSE IF Len(s) = 1 THEN LowerCh(s)
    ELSE LET h == Len(s) \div 2
         IN LowerStr(SubSeq(s, 1, h)) \o LowerStr(SubSeq(s, h + 1, Len(s)))

\* s * n
RECURSIVE Rep(_, _)
Rep(s, n) ==
    IF n <= 0 THEN ""
    ELSE IF n % 2 = 1 THEN s \o Rep(s, n - 1)
    ELSE Rep(s \o s, n \div 2)

\* s[:n]
Prefix(s, n) == SubSeq(s, 1, IF n < Len(s) THEN n ELSE Len(s))

IsWordAt(s, i) == i >= 1 /\ i <= Len(s) /\ Ch(s, i) \in WordChar
IsSpaceAt(s, i) == i >= 1 /\ i <= Len(s) /\ Ch(s, i) \in Space
IsDigitAt(s, i) == i >= 1 /\ i <= Len(s) /\ Ch(s, i) \in Digit

\* \b between s[i-1] and s[i] (1-based; i ranges over 1..Len(s)+1)
Boundary(s, i) == IsWordAt(s, i - 1) # IsWordAt(s, i)

\* the literal lit stands at position i of s
LitAt(s, i, lit) ==
    /\ i >= 1
    /\ i + Len(lit) - 1 <= Len(s)
    /\ SubSeq(s, i, i + Len(lit) - 1) = lit

\* the same under re.IGNORECASE (lit is given in lower case)
ILitAt(s, i, lit) ==
    /\ i >= 1
    /\ i + Len(lit) - 1 <= Len(s)
    /\ LowerCh(Ch(s, i)) = Ch(lit, 1)
    /\ LowerStr(SubSeq(s, i, i + Len(lit) - 1)) = lit

\* sub in s
Contains(s, sub) ==
    \/ Len(sub) = 0
    \/ \E i \in 1..(Len(s) - Len(sub) + 1) : Ch(s, i) = Ch(sub, 1) /\ LitAt(s, i, sub)

\* str.strip()
Strip(s) ==
    IF \A i \in 1..Len(s) : Ch(s, i) \in Space THEN ""
    ELSE LET a == CHOOSE i \in 1..Len(s) :
                    /\ Ch(s, i) \notin Space
                    /\ \A j \in 1..(i - 1) : Ch(s, j) \in Space
             b == CHOOSE i \in 1..Len(s) :
                    /\ Ch(s, i) \notin Space
                    /\ \A j \in (i + 1)..Len(s) : Ch(s, j) \in Space
         IN SubSeq(s, a, b)

\* the least element of a non-empty set of integers
MinOf(S) == CHOOSE x \in S : \A y \in S : x <= y


\* the end of the longest run of characters of class cls that starts at i
\* (i - 1 when s[i] is not in cls)
RunEnd(s, i, cls) ==
    CHOOSE j \in (i - 1)..Len(s) :
        /\ \A k \in i..j : Ch(s, k) \in cls
        /\ (j = Len(s) \/ Ch(s, j + 1) \notin cls)

\* The matches a scan (finditer, findall) reports, given ends[i], the end of the
\* match that starts at i, for every i where the pattern matches: the leftmost
\* match from pos on, then the scan goes on behind its end.
RECURSIVE MatchSeq(_, _)
MatchSeq(ends, pos) ==
    LET c == {i \in DOMAIN ends : i >= pos}
    IN IF c = {} THEN <<>>
       ELSE LET i == MinOf(c) IN <<i>> \o MatchSeq(ends, ends[i] + 1)

\* the first alternative (in the order written) that matches at i, ignoring case,
\* and is followed by \b; 0 when none does
FirstAlt(s, i, alts) ==
    LET ok == {k \in 1..Len(alts) :
                  ILitAt(s, i, alts[k]) /\ Boundary(s, i + Len(alts[k]))}
    IN IF ok = {} THEN 0 ELSE MinOf(ok)

(***************************************************************************)
(* Constants / Regex (analyzer.py:14-80).  An entry of the lexicon with a   *)
(* letter that a string of this module cannot hold is left out: no text of  *)
(* the model can contain it.                                               *)
(***************************************************************************)

\* WORD_RE = \b\w+\b: one match per maximal run of word characters
WordStarts(s) == {i \in 1..Len(s) : IsWordAt(s, i) /\ ~IsWordAt(s, i - 1)}

UNIT_ALTS == <<"mg", "g", "kg", "%", "kcal", "ml", "mcg", "gramov", "miligramov">>

\* UNITS_NUMBER_RE at i: \b \d+ (?:[.,]\d+)? \s? (unit) \b.  The end of the match,
\* 0 when there is none.  The quantifiers are greedy and giving characters back
\* never helps: what follows would have to start with a digit, "." or ",".
UnitsNumberEnd(s, i) ==
    IF ~(IsDigitAt(s, i) /\ Boundary(s, i)) THEN 0
    ELSE LET d == RunEnd(s, i, Digit)
             f == IF d + 1 <= Len(s) /\ Ch(s, d + 1) \in {".", ","} /\ IsDigitAt(s, d + 2)
                  THEN RunEnd(s, d + 2, Digit) ELSE d
             withSp == IF IsSpaceAt(s, f + 1) THEN FirstAlt(s, f + 2, UNIT_ALTS) ELSE 0
             noSp == FirstAlt(s, f + 1, UNIT_ALTS)
         IN IF withSp > 0 THEN f + 1 + Len(UNIT_ALTS[withSp])
            ELSE IF noSp > 0 THEN f + Len(UNIT_ALTS[noSp])
            ELSE 0

UnitsNumberMatches(s) ==
    LET starts == {i \in 1..Len(s) : IsDigitAt(s, i) /\ UnitsNumberEnd(s, i) > 0}
    IN MatchSeq([i \in starts |-> UnitsNumberEnd(s, i)], 1)

BANNED_INTRO_PHRASES ==
    << "v tomto clanku", "pozrieme sa", "podme sa pozriet", "dozviete sa",
       "zistíte", "zistite", "na úvod", "na uvod", "v dnesnom clanku",
       "predstavíme si", "predstavime si" >>

DEF_VERBS == <<"je", "znamená", "predstavuje">>
TermChar == Letter \cup {"-"}

\* DEFINITION_RE at i: \b ([letter][letter or -]{2,}) \s+ (je|znamená|predstavuje) \b.
\* A record of the match, or NoMatch.
NoMatch == [start |-> 0, end |-> 0, termEnd |-> 0]

DefinitionMatchAt(s, i) ==
    IF ~(i >= 1 /\ i <= Len(s) /\ Ch(s, i) \in Letter /\ Boundary(s, i)) THEN NoMatch
    ELSE LET e == RunEnd(s, i + 1, TermChar)
         IN IF e - i + 1 < 3 \/ ~IsSpaceAt(s, e + 1) THEN NoMatch
            ELSE LET w == RunEnd(s, e + 1, Space)
                     v == FirstAlt(s, w + 1, DEF_VERBS)
                 IN IF v = 0 THEN NoMatch
                    ELSE [start |-> i, end |-> w + Len(DEF_VERBS[v]), termEnd |-> e]

DEFINITION_STOPWORDS ==
    { "toto", "to", "ten", "tá", "ta", "tieto", "tak", "taky",
      "cas", "telo", "dnes", "vcera", "zajtra",
      "zivot", "clovek", "ludia",
      "pravda", "fakt", "fakty", "informácia", "informacia" }

SOURCE_TEXT_ALTS == <<"zdroje", "references", "referencie", "studie", "literatúra", "literatura">>

\* SOURCE_TEXT_RE.search(s) is not None
SourceTextFound(s) ==
    \E i \in 1..Len(s) : Boundary(s, i) /\ FirstAlt(s, i, SOURCE_TEXT_ALTS) > 0

SOURCE_DOMAIN_ALTS ==
    << "pubmed.ncbi.nlm.nih.gov", "ncbi.nlm.nih.gov", "examine.com", "who.int",
       "nih.gov", "cdc.gov", "efsa.europa.eu", "cochranelibrary.com",
       "jamanetwork.com", "nejm.org", "nature.com", "science.org" >>

\* SOURCE_DOMAIN_RE at i: https?:// (?:www\.)? (domain) \b.  The end of the match, 0
\* when there is none.
SourceDomainEnd(s, i) ==
    IF ~ILitAt(s, i, "http") THEN 0
    ELSE LET a == IF ILitAt(s, i + 4, "s") THEN i + 5 ELSE i + 4
         IN IF ~LitAt(s, a, "://") THEN 0
            ELSE LET b == a + 3
                     www == IF ILitAt(s, b, "www.") THEN FirstAlt(s, b + 4, SOURCE_DOMAIN_ALTS) ELSE 0
                     bare == FirstAlt(s, b, SOURCE_DOMAIN_ALTS)
                 IN IF www > 0 THEN b + 3 + Len(SOURCE_DOMAIN_ALTS[www])
                    ELSE IF bare > 0 THEN b - 1 + Len(SOURCE_DOMAIN_ALTS[bare])
                    ELSE 0

SourceDomainMatches(s) ==
    LET starts == {i \in 1..Len(s) : SourceDomainEnd(s, i) > 0}
    IN MatchSeq([i \in starts |-> SourceDomainEnd(s, i)], 1)

FAQ_TEXT_ALTS == <<"faq", "caste otazky", "najcastejsie otazky">>

\* FAQ_TEXT_RE.search(s) is not None
FaqTextFound(s) ==
    \E i \in 1..Len(s) : Boundary(s, i) /\ FirstAlt(s, i, FAQ_TEXT_ALTS) > 0

NOISE_SELECTORS == <<"header", "footer", "nav", "aside", "form", "noscript">>

(***************************************************************************)
(* The document tree.  A node is a text node (tag "#text", its string in   *)
(* text) or an element (its tag name in lower case, the attributes the     *)
(* code reads, its children in kids).                                      *)
(***************************************************************************)
Text(s) ==
    [tag |-> "#text", text |-> s, hasHref |-> FALSE, href |-> "",
     ariaModal |-> "", type |-> "", kids |-> <<>>]

El(tag, kids) ==
    [tag |-> tag, text |-> "", hasHref |-> FALSE, href |-> "",
     ariaModal |-> "", type |-> "", kids |-> kids]

\* <a href="...">
Link(href, kids) == [El("a", kids) EXCEPT !.hasHref = TRUE, !.href = href]

\* an element with aria-modal="value"
WithAriaModal(node, value) == [node EXCEPT !.ariaModal = value]

\* <script type="...">content</script>
ScriptEl(type, content) == [El("script", <<Text(content)>>) EXCEPT !.type = type]

\* the elements of a tree in document order (what find_all walks)
RECURSIVE Descendants(_)
Descendants(nodes) ==
    IF nodes = <<>> THEN <<>>
    ELSE LET n == Head(nodes)
         IN (IF n.tag = "#text" THEN <<>> ELSE <<n>> \o Descendants(n.kids))
            \o Descendants(Tail(nodes))

\* soup.find_all(tag)
FindAll(nodes, tag) == SelectSeq(Descendants(nodes), LAMBDA n : n.tag = tag)

\* for node in soup.find_all(tag_name): node.decompose()
RECURSIVE DecomposeTag(_, _)
DecomposeTag(nodes, tagName) ==
    IF nodes = <<>> THEN <<>>
    ELSE LET n == Head(nodes)
         IN (IF n.tag = tagName THEN <<>>
             ELSE << [n EXCEPT !.kids = DecomposeTag(n.kids, tagName)] >>)
            \o DecomposeTag(Tail(nodes), tagName)

\* for node in soup.find_all(attrs={"aria-modal": "true"}): node.decompose()
RECURSIVE DecomposeModal(_)
DecomposeModal(nodes) ==
    IF nodes = <<>> THEN <<>>
    ELSE LET n == Head(nodes)
         IN (IF n.tag # "#text" /\ n.ariaModal = "true" THEN <<>>
             ELSE << [n EXCEPT !.kids = DecomposeModal(n.kids)] >>)
            \o DecomposeModal(Tail(nodes))

RECURSIVE DecomposeAll(_, _)
DecomposeAll(nodes, tagNames) ==
    IF tagNames = <<>> THEN nodes
    ELSE DecomposeAll(DecomposeTag(nodes, Head(tagNames)), Tail(tagNames))

\* _strip_noise with script among the selectors
StripNoiseAndScripts(nodes) ==
    DecomposeModal(DecomposeAll(nodes, NOISE_SELECTORS \o <<"script">>))

\* _strip_noise
StripNoise(nodes) == DecomposeModal(DecomposeAll(nodes, NOISE_SELECTORS))

\* The strings get_text collects, in document order: the text nodes, except the
\* contents of script, style and template elements (bs4 4.9 and later keep those
\* in string classes that get_text leaves out).
RECURSIVE Strings(_)
Strings(nodes) ==
    IF nodes = <<>> THEN <<>>
    ELSE LET n == Head(nodes)
         IN (IF n.tag = "#text" THEN <<n.text>>
             ELSE IF n.tag \in {"script", "style", "template"} THEN <<>>
             ELSE Strings(n.kids))
            \o Strings(Tail(nodes))

\* sep.join(parts)
RECURSIVE Join(_, _)
Join(parts, sep) ==
    IF parts = <<>> THEN ""
    ELSE IF Len(parts) = 1 THEN parts[1]
    ELSE parts[1] \o sep \o Join(Tail(parts), sep)

\* soup.get_text(" ", strip=True): each string stripped, the empty ones dropped
GetText(nodes) ==
    LET strings == Strings(nodes)
        stripped == [i \in 1..Len(strings) |-> Strip(strings[i])]
    IN Join(SelectSeq(stripped, LAMBDA t : t # ""), " ")

\* tag.string
RECURSIVE StringOf(_)
StringOf(n) ==
    IF Len(n.kids) # 1 THEN ""
    ELSE IF n.kids[1].tag = "#text" THEN n.kids[1].text
    ELSE StringOf(n.kids[1])

(***************************************************************************)
(* Python values of the arguments: None, a str, or an object that is       *)
(* neither (the int 123): its methods are not those of str.                *)
(***************************************************************************)
PyNone == [kind |-> "none", s |-> ""]
PyStr(s) == [kind |-> "str", s |-> s]
PyInt123 == [kind |-> "int", s |-> "123"]

\* value or "": the value itself when it is truthy
OrEmpty(v) == IF v.kind = "none" \/ (v.kind = "str" /\ v.s = "") THEN PyStr("") ELSE v

\* a str method called on the value raises AttributeError
NotStr(v) == OrEmpty(v).kind # "str"

\* _safe_str
SafeStr(v) == IF v.kind = "none" THEN "" ELSE v.s

\* _count_words
CountWords(text) == Cardinality(WordStarts(text))

\* parts[0] of re.split(r"(?<=[.!?])\s+", t): cuts are the places where whitespace
\* follows ".", "!" or "?"
FirstPart(t, cuts) == IF cuts = {} THEN t ELSE SubSeq(t, 1, MinOf(cuts) - 1)

\* _first_sentence, of the stripped text
FirstSentenceOf(t) ==
    IF t = "" THEN ""
    ELSE Strip(Prefix(
             FirstPart(t, {i \in 2..Len(t) :
                              Ch(t, i) \in Space /\ Ch(t, i - 1) \in {".", "!", "?"}}),
             400))

\* _first_sentence
FirstSentence(text) == FirstSentenceOf(Strip(text))

(***************************************************************************)
(* Criterion checks (analyzer.py:167-360).  Each yields                     *)
(* [ok |-> verdict, d |-> evidence].                                       *)
(***************************************************************************)

\* [p for p in BANNED_INTRO_PHRASES if p in lowered]
BannedHits(lowered) == SelectSeq(BANNED_INTRO_PHRASES, LAMBDA p : Contains(lowered, p))

\* first.endswith("?") or ("?" in first[:120])
LooksLikeQuestion(first) ==
    \/ (first # "" /\ Ch(first, Len(first)) = "?")
    \/ Contains(Prefix(first, 120), "?")

\* passed, and the evidence (analyzer.py:187-194)
DirectAnswerResult(intro_150, first, first_words, banned_hits, looks_like_question) ==
    [ok |-> /\ first # ""
            /\ banned_hits = <<>>
            /\ ~looks_like_question
            /\ first_words >= 6,
     d |-> [intro_150 |-> intro_150,
            first_sentence |-> first,
            first_sentence_words |-> first_words,
            banned_hits |-> banned_hits,
            looks_like_question |-> looks_like_question]]

\* analyzer.py:179-185, given intro_150 and first
DirectAnswerOfIntro(intro_150, first) ==
    DirectAnswerResult(intro_150, first,
                       IF first # "" THEN CountWords(first) ELSE 0,
                       BannedHits(LowerStr(intro_150)),
                       LooksLikeQuestion(first))

\* analyzer.py:178-183, given text
DirectAnswerOfText(text) == DirectAnswerOfIntro(Prefix(text, 150), FirstSentence(text))

\* Criterion #1
check_direct_answer(plain_text) == DirectAnswerOfText(Strip(plain_text))

DEFAULT_WINDOW_CHARS == 1200

\* FirstDefinition without the title condition of strict mode
RECURSIVE FirstDefinitionAnyTitle(_, _, _, _, _)
FirstDefinitionAnyTitle(window, ends, pos, title_l, strict_) ==
    LET c == {i \in DOMAIN ends : i >= pos}
    IN IF c = {} THEN NoMatch
       ELSE LET i == MinOf(c)
                m == DefinitionMatchAt(window, i)
                term_l == LowerStr(Strip(SubSeq(window, i, m.termEnd)))
            IN IF term_l = "" \/ term_l \in DEFINITION_STOPWORDS
               THEN FirstDefinitionAnyTitle(window, ends, m.end + 1, title_l, strict_)
               ELSE m

\* the loop of check_definition over DEFINITION_RE.finditer(window): the first
\* match, from pos on, whose term is no stopword and (strict, title given) occurs
\* in the title; NoMatch when the matches run out
RECURSIVE FirstDefinition(_, _, _, _, _)
FirstDefinition(window, ends, pos, title_l, strict_) ==
    LET c == {i \in DOMAIN ends : i >= pos}
    IN IF c = {} THEN NoMatch
       ELSE LET i == MinOf(c)
                m == DefinitionMatchAt(window, i)
                term == Strip(SubSeq(window, i, m.termEnd))
                term_l == LowerStr(term)
            IN IF \/ term = ""
                  \/ term_l \in DEFINITION_STOPWORDS
                  \/ (strict_ /\ title_l # "" /\ ~Contains(title_l, term_l))
               THEN FirstDefinition(window, ends, m.end + 1, title_l, strict_)
               ELSE m

\* what check_definition returns, given the accepted match m (or NoMatch)
DefinitionResult(window, m, strict_, window_chars) ==
    IF m # NoMatch
    THEN [ok |-> TRUE,
          d |-> [definition_match |-> SubSeq(window, m.start, m.end),
                 term |-> Strip(SubSeq(window, m.start, m.termEnd)),
                 strict |-> strict_,
                 window_chars |-> window_chars]]
    ELSE [ok |-> FALSE,
          d |-> [definition_match |-> "", term |-> "",
                 strict |-> strict_, window_chars |-> window_chars]]

\* where DEFINITION_RE matches in the window
DefinitionStarts(window) ==
    {i \in 1..Len(window) :
        Ch(window, i) \in Letter /\ DefinitionMatchAt(window, i) # NoMatch}

DefinitionEnds(window, starts) == [i \in starts |-> DefinitionMatchAt(window, i).end]

\* analyzer.py:209-230, given window and title_l
DefinitionInWindow(window, title_l, strict_, window_chars) ==
    DefinitionResult(window,
                     FirstDefinition(window,
                                     DefinitionEnds(window, DefinitionStarts(window)),
                                     1, title_l, strict_),
                     strict_, window_chars)

\* Criterion #2 (title is a str here; analyze_article passes window_chars = 1200)
check_definition(plain_text, title, strict_, window_chars) ==
    DefinitionInWindow(Prefix(Strip(plain_text),
                              IF window_chars > 0 THEN window_chars ELSE 0),
                       Strip(LowerStr(title)), strict_, window_chars)

DEFAULT_MIN_H2 == 3

\* Criterion #3
check_h2_headings(soup, min_h2) ==
    LET count == Len(FindAll(soup, "h2"))
    IN [ok |-> count >= min_h2, d |-> [h2_count |-> count, min_h2 |-> min_h2]]

DEFAULT_MIN_FACTS == 3

\* check_facts that passes up to the threshold instead of from it
check_facts_up_to(plain_text, min_numbers_with_units) ==
    [ok |-> Len(UnitsNumberMatches(plain_text)) <= min_numbers_with_units,
     d |-> [numbers_with_units_found |-> Len(UnitsNumberMatches(plain_text)),
            min_numbers_with_units |-> min_numbers_with_units,
            units_regex |-> "\\\\d+\\\\s?(mg|g|kg|%|kcal|ml|mcg|gramov|miligramov)"]]

\* Criterion #4
check_facts(plain_text, min_numbers_with_units) ==
    LET count == Len(UnitsNumberMatches(plain_text))
    IN [ok |-> count >= min_numbers_with_units,
        d |-> [numbers_with_units_found |-> count,
               min_numbers_with_units |-> min_numbers_with_units,
               units_regex |-> "\\\\d+\\\\s?(mg|g|kg|%|kcal|ml|mcg|gramov|miligramov)"]]

\* h.lower().startswith(("http://", "https://"))
IsHttpLink(h) == LitAt(LowerStr(h), 1, "http://") \/ LitAt(LowerStr(h), 1, "https://")

\* SourcesPassed with a strict mode that accepts whitelisted links only
SourcesPassedWhitelistOnly(has_source_section, whitelisted_count, http_links_count, strict_) ==
    IF strict_
    THEN whitelisted_count > 0
    ELSE has_source_section \/ (whitelisted_count > 0)

\* SourcesPassed with a strict mode that accepts any http(s) link
SourcesPassedAnyLink(has_source_section, whitelisted_count, http_links_count, strict_) ==
    IF strict_
    THEN (whitelisted_count > 0) \/ (http_links_count > 0)
    ELSE has_source_section \/ (whitelisted_count > 0)

\* the policy of check_sources (analyzer.py:280-283)
SourcesPassed(has_source_section, whitelisted_count, http_links_count, strict_) ==
    IF strict_
    THEN (whitelisted_count > 0) \/ (has_source_section /\ http_links_count > 0)
    ELSE has_source_section \/ (whitelisted_count > 0)

\* passed, and the evidence (analyzer.py:280-290)
SourcesResult(has_source_section, whitelisted_count, http_links_count, strict_) ==
    [ok |-> SourcesPassed(has_source_section, whitelisted_count,
                          http_links_count, strict_),
     d |-> [has_source_section |-> has_source_section,
            whitelisted_links_count |-> whitelisted_count,
            http_links_count |-> http_links_count,
            strict |-> strict_]]

\* hrefs: the href of every <a href=...>, in document order
Hrefs(soup) ==
    LET anchors == SelectSeq(FindAll(soup, "a"), LAMBDA a : a.hasHref)
    IN [i \in 1..Len(anchors) |-> anchors[i].href]

\* analyzer.py:274-290, given hrefs
SourcesOfHrefs(plain_text, hrefs, strict_) ==
    SourcesResult(SourceTextFound(plain_text),
                  Len(SourceDomainMatches(Join(hrefs, " "))),
                  Len(SelectSeq(hrefs, IsHttpLink)),
                  strict_)

\* Criterion #5
check_sources(plain_text, soup, strict_) ==
    SourcesOfHrefs(plain_text, Hrefs(soup), strict_)

\* Criterion #6
check_faq(plain_text, soup) ==
    LET text_hint == FaqTextFound(plain_text)
        has_dl == FindAll(soup, "dl") # <<>>
        scripts == SelectSeq(FindAll(soup, "script"),
                             LAMBDA n : n.type = "application/ld+json")
        has_faq_schema ==
            \E i \in 1..Len(scripts) : Contains(StringOf(scripts[i]), "FAQPage")
    IN [ok |-> text_hint \/ has_dl \/ has_faq_schema,
        d |-> [text_hint |-> text_hint, has_dl |-> has_dl,
               has_faq_schema |-> has_faq_schema]]

DEFAULT_MIN_LISTS == 1

\* Criterion #7
check_lists(soup, min_lists) ==
    LET ul_count == Len(FindAll(soup, "ul"))
        ol_count == Len(FindAll(soup, "ol"))
        count == ul_count + ol_count
    IN [ok |-> count >= min_lists,
        d |-> [list_count |-> count, ul |-> ul_count, ol |-> ol_count,
               min_lists |-> min_lists]]

DEFAULT_MIN_TABLES == 1

\* Criterion #8
check_tables(soup, min_tables) ==
    LET count == Len(FindAll(soup, "table"))
    IN [ok |-> count >= min_tables,
        d |-> [table_count |-> count, min_tables |-> min_tables]]

DEFAULT_MIN_WORDS == 500

\* check_word_count that asks for more than min_words
check_word_count_above(plain_text, min_words) ==
    [ok |-> CountWords(plain_text) > min_words,
     d |-> [word_count |-> CountWords(plain_text), min_words |-> min_words]]

\* Criterion #9
check_word_count(plain_text, min_words) ==
    LET wc == CountWords(plain_text)
    IN [ok |-> wc >= min_words, d |-> [word_count |-> wc, min_words |-> min_words]]

DEFAULT_MIN_LEN == 120
DEFAULT_MAX_LEN == 160

\* check_meta_description without the lower limit
check_meta_description_no_min(meta_description, min_len, max_len) ==
    [ok |-> Len(Strip(meta_description)) <= max_len,
     d |-> [meta_len |-> Len(Strip(meta_description)),
            min_len |-> min_len, max_len |-> max_len]]

\* check_meta_description with the limits excluded
check_meta_description_exclusive(meta_description, min_len, max_len) ==
    [ok |-> Len(Strip(meta_description)) > min_len
            /\ Len(Strip(meta_description)) < max_len,
     d |-> [meta_len |-> Len(Strip(meta_description)),
            min_len |-> min_len, max_len |-> max_len]]

\* Criterion #10 (meta_description is a str here)
check_meta_description(meta_description, min_len, max_len) ==
    LET md == Strip(meta_description)
        n == Len(md)
    IN [ok |-> (n >= min_len) /\ (n <= max_len),
        d |-> [meta_len |-> n, min_len |-> min_len, max_len |-> max_len]]

(***************************************************************************)
(* Recommendations and analyze_article (analyzer.py:367-482).               *)
(***************************************************************************)

\* the canonical order of the ten criteria: the order analyze_article runs the
\* checks in, and the field names of AuditResult
CRITERIA ==
    << "direct_answer", "definition", "headings", "facts", "sources", "faq",
       "lists", "tables", "word_count_ok", "meta_ok" >>

\* RECOMMENDATIONS_TEXT (letters and quotes outside Latin-1 written in ASCII)
RECOMMENDATIONS_TEXT ==
    [ direct_answer |-> "Pridaj priamu odpoved hned do úvodu (1-2 vety), bez vaty a bez otázok.",
      definition |-> "Dopln strucnú definíciu hlavného pojmu (napr. 'X je ... / X znamená ...'), ideálne v úvode.",
      headings |-> "Pridaj viac H2 podnadpisov (clánok sa bude lepsie skenovat a segmentovat).",
      facts |-> "Dopln meratelné fakty (císla, percentá, dávkovanie, stúdie), aby bol obsah konkrétnejsí.",
      sources |-> "Dopln citácie zdrojov (odkazy) alebo sekciu 'Zdroje/References/Stúdie' s reálnymi linkami.",
      faq |-> "Pridaj FAQ blok (FAQ/Casté otázky) - ideálne s konkrétnymi otázkami a odpovedami.",
      lists |-> "Pridaj zoznamy (<ul>/<ol>) pre lepsiu citatelnost (napr. kroky, tipy, výhody/nevýhody).",
      tables |-> "Ak dáva zmysel, pridaj tabulku (porovnanie, dávkovanie, prehlad) pre rýchle skenovanie.",
      word_count_ok |-> "Dopln obsah - clánok má mat aspon 500 slov (word count z cistého textu bez HTML).",
      meta_ok |-> "Uprav meta description na ~120-160 znakov (jasne, s benefitom a klúcovým pojmom)." ]

\* content_html as the parser sees it: None, or a str with the tree html.parser
\* builds for it; rejected: the parser raises on this markup (ParserRejectedMarkup)
HtmlNone == [kind |-> "none", rejected |-> FALSE, tree |-> <<>>]
Html(tree) == [kind |-> "str", rejected |-> FALSE, tree |-> tree]
HtmlRejected == [kind |-> "str", rejected |-> TRUE, tree |-> <<>>]

\* The places of analyze_article and of the loop of main where an exception that no
\* argument explains (MemoryError, RecursionError, a library fault) can be raised:
\* parsing, text extraction, one of the ten checks, the building of the row.
FaultPoints ==
    {"none", "parse", "text", "row"} \cup {CRITERIA[i] : i \in 1..Len(CRITERIA)}

\* try: soup = _html_to_soup(content_html) / except Exception: the empty soup
SoupOf(content_html, fault) ==
    IF content_html.rejected \/ fault = "parse" THEN <<>>
    ELSE StripNoise(IF content_html.kind = "none" THEN <<>> ELSE content_html.tree)

\* try: plain = _plain_text_from_soup(soup) / except Exception: plain = ""
PlainOf(soup, fault) == IF fault = "text" THEN "" ELSE GetText(soup)

\* Score with the last flag left out
ScoreWithoutLastFlag(flags) ==
    Len(SelectSeq(SubSeq(flags, 1, Len(flags) - 1), LAMBDA x : x))

\* score = sum(1 for x in flags if x)
Score(flags) == Len(SelectSeq(flags, LAMBDA x : x))

\* recommendations: List[str] = []
NewRecommendations == <<>>

\* AppendIfFailed with the condition inverted
AppendIfPassed(recs, ok, key) ==
    IF ok THEN Append(recs, RECOMMENDATIONS_TEXT[key]) ELSE recs

\* if not ok: recommendations.append(RECOMMENDATIONS_TEXT[key])
AppendIfFailed(recs, ok, key) ==
    IF ~ok THEN Append(recs, RECOMMENDATIONS_TEXT[key]) ELSE recs

\* Recommendations with the tables block placed before the lists block
RecommendationsTablesFirst(direct_ok, def_ok, h2_ok, facts_ok, sources_ok, faq_ok, lists_ok, tables_ok, wc_ok, meta_ok) ==
    LET r1 == IF ~direct_ok THEN <<RECOMMENDATIONS_TEXT["direct_answer"]>> ELSE <<>>
        r2 == IF ~def_ok THEN <<RECOMMENDATIONS_TEXT["definition"]>> ELSE <<>>
        r3 == IF ~h2_ok THEN <<RECOMMENDATIONS_TEXT["headings"]>> ELSE <<>>
        r4 == IF ~facts_ok THEN <<RECOMMENDATIONS_TEXT["facts"]>> ELSE <<>>
        r5 == IF ~sources_ok THEN <<RECOMMENDATIONS_TEXT["sources"]>> ELSE <<>>
        r6 == IF ~faq_ok THEN <<RECOMMENDATIONS_TEXT["faq"]>> ELSE <<>>
        r7 == IF ~tables_ok THEN <<RECOMMENDATIONS_TEXT["tables"]>> ELSE <<>>
        r8 == IF ~lists_ok THEN <<RECOMMENDATIONS_TEXT["lists"]>> ELSE <<>>
        r9 == IF ~wc_ok THEN <<RECOMMENDATIONS_TEXT["word_count_ok"]>> ELSE <<>>
        r10 == IF ~meta_ok THEN <<RECOMMENDATIONS_TEXT["meta_ok"]>> ELSE <<>>
    IN r1 \o r2 \o r3 \o r4 \o r5 \o r6 \o r7 \o r8 \o r9 \o r10

Recommendations(direct_ok, def_ok, h2_ok, facts_ok, sources_ok, faq_ok, lists_ok, tables_ok, wc_ok, meta_ok) ==
    LET r1 == AppendIfFailed(NewRecommendations, direct_ok, "direct_answer")
        r2 == AppendIfFailed(r1, def_ok, "definition")
        r3 == AppendIfFailed(r2, h2_ok, "headings")
        r4 == AppendIfFailed(r3, facts_ok, "facts")
        r5 == AppendIfFailed(r4, sources_ok, "sources")
        r6 == AppendIfFailed(r5, faq_ok, "faq")
        r7 == AppendIfFailed(r6, lists_ok, "lists")
        r8 == AppendIfFailed(r7, tables_ok, "tables")
        r9 == AppendIfFailed(r8, wc_ok, "word_count_ok")
    IN AppendIfFailed(r9, meta_ok, "meta_ok")

\* The checks that raise for these arguments, in canonical order: the one the
\* fault is in; check_definition on a title that is no str ((title or "").lower());
\* check_meta_description on a meta description that is no str (.strip()).
RaisingChecks(meta_description, title, fault) ==
    SelectSeq(CRITERIA,
              LAMBDA c : \/ c = fault
                         \/ (c = "definition" /\ NotStr(title))
                         \/ (c = "meta_ok" /\ NotStr(meta_description)))

\* flags, score, details, recommendations and the AuditResult (analyzer.py:418-482)
AuditResult(direct, def, h2, facts, sources, faq, lists, tables, wc, meta) ==
    [ direct_answer |-> direct.ok,
      definition |-> def.ok,
      headings |-> h2.ok,
      facts |-> facts.ok,
      sources |-> sources.ok,
      faq |-> faq.ok,
      lists |-> lists.ok,
      tables |-> tables.ok,
      word_count_ok |-> wc.ok,
      meta_ok |-> meta.ok,
      score |-> Score(<< direct.ok, def.ok, h2.ok, facts.ok, sources.ok, faq.ok,
                         lists.ok, tables.ok, wc.ok, meta.ok >>),
      details |-> [ direct_answer |-> direct.d, definition |-> def.d,
                    headings |-> h2.d, facts |-> facts.d, sources |-> sources.d,
                    faq |-> faq.d, lists |-> lists.d, tables |-> tables.d,
                    word_count_ok |-> wc.d, meta_ok |-> meta.d ],
      recommendations |->
          Recommendations(direct.ok, def.ok, h2.ok, facts.ok, sources.ok, faq.ok,
                          lists.ok, tables.ok, wc.ok, meta.ok) ]

\* RunChecks where strict also asks for one more fact
RunChecksStrictFacts(soup, plain, meta_description, title, strict_) ==
    AuditResult(check_direct_answer(plain),
                check_definition(plain, OrEmpty(title).s, strict_, DEFAULT_WINDOW_CHARS),
                check_h2_headings(soup, DEFAULT_MIN_H2),
                check_facts(plain, IF strict_ THEN DEFAULT_MIN_FACTS + 1 ELSE DEFAULT_MIN_FACTS),
                check_sources(plain, soup, strict_),
                check_faq(plain, soup),
                check_lists(soup, DEFAULT_MIN_LISTS),
                check_tables(soup, DEFAULT_MIN_TABLES),
                check_word_count(plain, DEFAULT_MIN_WORDS),
                check_meta_description(OrEmpty(meta_description).s,
                                       DEFAULT_MIN_LEN, DEFAULT_MAX_LEN))

\* Run checks (10) (analyzer.py:406-416), when none of them raises
RunChecks(soup, plain, meta_description, title, strict_) ==
    AuditResult(check_direct_answer(plain),
                check_definition(plain, OrEmpty(title).s, strict_, DEFAULT_WINDOW_CHARS),
                check_h2_headings(soup, DEFAULT_MIN_H2),
                check_facts(plain, DEFAULT_MIN_FACTS),
                check_sources(plain, soup, strict_),
                check_faq(plain, soup),
                check_lists(soup, DEFAULT_MIN_LISTS),
                check_tables(soup, DEFAULT_MIN_TABLES),
                check_word_count(plain, DEFAULT_MIN_WORDS),
                check_meta_description(OrEmpty(meta_description).s,
                                       DEFAULT_MIN_LEN, DEFAULT_MAX_LEN))

\* the message of the exception a raising check ends with
ExceptionText(c, fault) ==
    IF c = fault THEN "unexpected error in " \o c
    ELSE IF c = "definition" THEN "'int' object has no attribute 'lower'"
    ELSE "'int' object has no attribute 'strip'"

\* The call ends with the exception of check `at`: nothing in analyze_article
\* catches it.  ran: the checks that ran before it.
Raised(fault, at) ==
    [ fault |-> fault, raised |-> TRUE, at |-> at, ex |-> ExceptionText(at, fault),
      ran |-> SubSeq(CRITERIA, 1, (CHOOSE i \in 1..Len(CRITERIA) : CRITERIA[i] = at) - 1) ]

\* The call returns res; soup and plain are what the checks were given.
Returned(fault, soup, plain, res) ==
    [ fault |-> fault, raised |-> FALSE, at |-> "", ex |-> "", ran |-> CRITERIA,
      soup |-> soup, plain |-> plain, res |-> res ]

\* analyzer.py:401-482, given soup
AnalyzeSoup(soup, plain, meta_description, title, strict_, fault) ==
    Returned(fault, soup, plain, RunChecks(soup, plain, meta_description, title, strict_))

\* analyze_article: what a call does.  The checks run in canonical order; the
\* first one that raises ends the call.
analyze_article(content_html, meta_description, title, strict_, fault) ==
    IF RaisingChecks(meta_description, title, fault) # <<>>
    THEN Raised(fault, RaisingChecks(meta_description, title, fault)[1])
    ELSE AnalyzeSoup(SoupOf(content_html, fault),
                     PlainOf(SoupOf(content_html, fault), fault),
                     meta_description, title, strict_, fault)

(***************************************************************************)
(* The report row (reporter.py:46-141) and the row main builds when the    *)
(* analysis of an article fails (main.py:409-433).                         *)
(***************************************************************************)

\* _as_bool01
AsBool01(value) == IF value THEN 1 ELSE 0

\* s.replace("\n", " ").replace("\r", " ")
RECURSIVE NoLineBreaks(_)
NoLineBreaks(s) ==
    IF \A i \in 1..Len(s) : Ch(s, i) \notin {"\n", "\r"} THEN s
    ELSE IF Len(s) = 1 THEN (IF s \in {"\n", "\r"} THEN " " ELSE s)
    ELSE LET h == Len(s) \div 2
         IN NoLineBreaks(SubSeq(s, 1, h)) \o NoLineBreaks(SubSeq(s, h + 1, Len(s)))

\* _join_recommendations with ", " between the parts
JoinRecommendationsWithCommas(recs) ==
    IF recs = <<>> THEN ""
    ELSE LET parts == [i \in 1..Len(recs) |-> Strip(NoLineBreaks(recs[i]))]
         IN Join(SelectSeq(parts, LAMBDA q : q # ""), ", ")

\* _join_recommendations, of a list
JoinRecommendations(recs) ==
    IF recs = <<>> THEN ""
    ELSE LET parts == [i \in 1..Len(recs) |-> Strip(NoLineBreaks(recs[i]))]
         IN Join(SelectSeq(parts, LAMBDA q : q # ""), " | ")

\* _details_get_int that always yields its default
DetailsGetIntDefault(details, key, field) == 0

\* _details_get_int(details, key, field): details[key][field] (both are present in
\* the details analyze_article builds)
DetailsGetInt(details, key, field) == details[key][field]

build_report_row(url, title, result) ==
    [ url |-> Strip(SafeStr(url)),
      title |-> Strip(SafeStr(title)),
      score |-> result.score,
      direct_answer |-> AsBool01(result.direct_answer),
      definition |-> AsBool01(result.definition),
      headings |-> AsBool01(result.headings),
      facts |-> AsBool01(result.facts),
      sources |-> AsBool01(result.sources),
      faq |-> AsBool01(result.faq),
      lists |-> AsBool01(result.lists),
      tables |-> AsBool01(result.tables),
      word_count_ok |-> AsBool01(result.word_count_ok),
      meta_ok |-> AsBool01(result.meta_ok),
      word_count |-> DetailsGetInt(result.details, "word_count_ok", "word_count"),
      h2_count |-> DetailsGetInt(result.details, "headings", "h2_count"),
      list_count |-> DetailsGetInt(result.details, "lists", "list_count"),
      table_count |-> DetailsGetInt(result.details, "tables", "table_count"),
      meta_len |-> DetailsGetInt(result.details, "meta_ok", "meta_len"),
      recommendations |-> JoinRecommendations(result.recommendations) ]

\* ErrorRow with nothing noted in the recommendations
ErrorRowWithoutDiagnostic(a, ex) ==
    [ url |-> a.url.s,
      title |-> a.title.s,
      score |-> 0,
      direct_answer |-> 0, definition |-> 0, headings |-> 0, facts |-> 0,
      sources |-> 0, faq |-> 0, lists |-> 0, tables |-> 0, word_count_ok |-> 0,
      meta_ok |-> 0,
      word_count |-> 0, h2_count |-> 0, list_count |-> 0, table_count |-> 0,
      meta_len |-> 0,
      recommendations |-> "" ]

\* the row of the except branch of main's loop
ErrorRow(a, ex) ==
    [ url |-> a.url.s,
      title |-> a.title.s,
      score |-> 0,
      direct_answer |-> 0, definition |-> 0, headings |-> 0, facts |-> 0,
      sources |-> 0, faq |-> 0, lists |-> 0, tables |-> 0, word_count_ok |-> 0,
      meta_ok |-> 0,
      word_count |-> 0, h2_count |-> 0, list_count |-> 0, table_count |-> 0,
      meta_len |-> 0,
      recommendations |-> "Analysis error: " \o ex ]

(***************************************************************************)
(* The reports (reporter.py:144-176, html_reporter.py:29-108): what each   *)
(* writer puts into its file, as the rows of the file in their order.      *)
(***************************************************************************)

\* the columns of a row that hold a str; the others hold an int
TEXT_COLUMNS == {"url", "title", "recommendations"}

\* _safe_str(v).replace("\n", " ").replace("\r", " ").strip(), of column k of a row
CsvCell(k, v) == IF k \in TEXT_COLUMNS THEN Strip(NoLineBreaks(v)) ELSE ToString(v)

\* safe_row (reporter.py:175)
CsvRow(row) == [k \in DOMAIN row |-> CsvCell(k, row[k])]

\* write_csv_report: for row in rows_list: writer.writerow(safe_row)
write_csv_report(rows_list) ==
    [file |-> "csv", rows |-> [i \in 1..Len(rows_list) |-> CsvRow(rows_list[i])]]

\* _sanitize_row (the int columns of a row are ints already)
SanitizeRow(row) ==
    [k \in DOMAIN row |->
        IF k \in {"url", "title"} THEN Strip(row[k])
        ELSE IF k = "recommendations" THEN Strip(NoLineBreaks(row[k]))
        ELSE row[k]]

\* the characters of this module's strings in the order of their code points,
\* which is the order Python compares str by (backslash and backquote left out)
CodePoints ==
    "\t\n\r !\"#$%&'()*+,-./0123456789:;<=>?@" \o UpperLetters \o "[]^_"
    \o LowerLetters \o "{|}~" \o UpperAccented \o LowerAccented

CodeOf(c) == CHOOSE i \in 1..Len(CodePoints) : Ch(CodePoints, i) = c

\* a < b on str
RECURSIVE StrLess(_, _)
StrLess(a, b) ==
    IF b = "" THEN FALSE
    ELSE IF a = "" THEN TRUE
    ELSE IF Ch(a, 1) = Ch(b, 1) THEN StrLess(SubSeq(a, 2, Len(a)), SubSeq(b, 2, Len(b)))
    ELSE CodeOf(Ch(a, 1)) < CodeOf(Ch(b, 1))

\* key(x) < key(y) for key = (-score, title.lower())
KeyLess(x, y) ==
    \/ x.score > y.score
    \/ x.score = y.score /\ StrLess(LowerStr(x.title), LowerStr(y.title))

\* x put into the sorted list behind every row whose key is not greater
InsertRow(sorted, x) ==
    LET greater == {j \in 1..Len(sorted) : KeyLess(x, sorted[j])}
        k == IF greater = {} THEN Len(sorted) + 1 ELSE MinOf(greater)
    IN SubSeq(sorted, 1, k - 1) \o <<x>> \o SubSeq(sorted, k, Len(sorted))

\* data.sort(key=...): list.sort is stable
RECURSIVE SortRows(_)
SortRows(data) ==
    IF data = <<>> THEN <<>>
    ELSE InsertRow(SortRows(SubSeq(data, 1, Len(data) - 1)), data[Len(data)])

\* write_html_report: the rows of the payload
write_html_report(rows_) ==
    [file |-> "html",
     rows |-> SortRows([i \in 1..Len(rows_) |-> SanitizeRow(rows_[i])])]

(***************************************************************************)
(* Inputs.  Documents are put together from fragments, one group per       *)
(* criterion, so that every combination of the ten verdicts has a document. *)
(***************************************************************************)
P(s) == El("p", <<Text(s)>>)

\* the opening paragraph: a direct answer or a question, with or without a
\* definition ("Kreatin je")
Intros ==
    [ direct_def |-> "Kreatin je doplnok vyzivy pre silu a vykon.",
      direct_nodef |-> "Tento doplnok pomaha kazdemu pri sile a vykone.",
      question_def |-> "Kreatin je co?",
      question_nodef |-> "Preco brat doplnok?" ]

H2s(n) == [i \in 1..n |-> El("h2", <<Text("Davkovanie")>>)]

FactsPara(n) ==
    IF n >= 3 THEN P("Davka 5 mg denne, 10 g bielkovin a 200 kcal navyse.")
    ELSE P("Davka 5 mg denne a 200 kcal navyse.")

\* the signals check_sources reads: the section hint, a link to a whitelisted
\* domain (with or without a leading blank in its href, which keeps it from
\* counting as an http link), a link to another site
SourceNodes(hint, whitelisted, http) ==
    (IF hint THEN <<El("h3", <<Text("Zdroje")>>)>> ELSE <<>>)
    \o (IF whitelisted /\ http
        THEN <<Link("https://www.who.int/report", <<Text("WHO")>>)>> ELSE <<>>)
    \o (IF whitelisted /\ ~http
        THEN <<Link(" https://www.who.int/report", <<Text("WHO")>>)>> ELSE <<>>)
    \o (IF ~whitelisted /\ http
        THEN <<Link("https://example.com/a", <<Text("Example")>>)>> ELSE <<>>)

FaqNodes(on) == IF on THEN <<El("h3", <<Text("FAQ")>>)>> ELSE <<>>
ListNodes(n) == [i \in 1..n |-> El("ul", <<El("li", <<Text("prvy bod")>>)>>)]
TableNodes(n) == [i \in 1..n |-> El("table", <<El("tr", <<El("td", <<Text("bunka")>>)>>)>>)]

\* the body text: n words
Filler(n) == IF n = 0 THEN <<>> ELSE <<P(Rep("w ", n))>>

Doc(intro, h2, facts, src, faq, lists, tables, words) ==
    <<P(Intros[intro])>> \o H2s(h2) \o <<FactsPara(facts)>>
    \o SourceNodes(src[1], src[2], src[3]) \o FaqNodes(faq) \o ListNodes(lists)
    \o TableNodes(tables) \o Filler(words)

Meta(n) == PyStr(Rep("m", n))

Article(url, title, content_html, meta_description) ==
    [url |-> url, title |-> title, content_html |-> content_html,
     meta_description |-> meta_description]

\* one document for every combination of the verdicts of the nine checks that
\* read the document, each with a meta description that passes and one that fails
VerdictInputs ==
    { Article(PyStr(""), PyStr("Kreatin"),
              Html(Doc(intro, h2, facts, <<src, src, src>>, faq, lists, tables, words)),
              Meta(m)) :
        intro \in DOMAIN Intros, h2 \in {2, 3}, facts \in {2, 3}, src \in BOOLEAN,
        faq \in BOOLEAN, lists \in {0, 1}, tables \in {0, 1}, words \in {0, 500},
        m \in {100, 140} }

\* every combination of the three signals of check_sources
SourcesInputs ==
    { Article(PyStr(""), PyStr("Kreatin"),
              Html(Doc("direct_def", 3, 3, <<hint, wl, http>>, FALSE, 1, 1, 0)),
              Meta(140)) :
        hint \in BOOLEAN, wl \in BOOLEAN, http \in BOOLEAN }
    \cup { Article(PyStr(""), PyStr("Kreatin"), Html(<<Text("Zdroje")>>), Meta(140)) }

\* the arguments at the edges: no content, empty content, blank content, markup
\* the parser rejects; a meta description or title that is None, empty or no str
EdgeInputs ==
    { Article(PyStr(""), title, content, meta) :
        title \in {PyNone, PyStr(""), PyStr("Vitaminy"), PyInt123},
        content \in { HtmlNone, Html(<<>>), Html(<<Text("  ")>>), HtmlRejected,
                      Html(Doc("direct_def", 3, 3, <<TRUE, TRUE, TRUE>>, TRUE, 2, 1, 0)) },
        meta \in {PyNone, PyStr(""), PyStr("  " \o Rep("m", 120) \o " "), PyInt123} }

\* the three FAQ signals: a hint in the text, a definition list, a JSON-LD
\* script with the marker
FaqHint == P("Caste otazky o kreatine")
FaqDl == El("dl", <<El("dt", <<Text("Kedy ho brat?")>>), El("dd", <<Text("Po treningu.")>>)>>)
FaqSchema == ScriptEl("application/ld+json", "{\"@context\": \"https://schema.org\", \"@type\": \"FAQPage\"}")

FaqDoc(hint, dl, schema) ==
    <<P(Intros.direct_def)>>
    \o (IF hint THEN <<FaqHint>> ELSE <<>>)
    \o (IF dl THEN <<El("div", <<FaqDl>>)>> ELSE <<>>)
    \o (IF schema THEN <<El("div", <<FaqSchema>>)>> ELSE <<>>)

\* scripts that are no signal: of another type, without the marker, with the
\* marker in lower case
NoFaqSchemas ==
    { ScriptEl("text/javascript", "var page = \"FAQPage\";"),
      ScriptEl("", "{\"@type\": \"FAQPage\"}"),
      ScriptEl("application/ld+json", "{\"@type\": \"Article\"}"),
      ScriptEl("application/ld+json", "{\"@type\": \"faqpage\"}") }

\* every combination of the three signals of check_faq, and the near misses
FaqInputs ==
    { Article(PyStr(""), PyStr("Kreatin"), Html(FaqDoc(hint, dl, schema)), Meta(140)) :
        hint \in BOOLEAN, dl \in BOOLEAN, schema \in BOOLEAN }
    \cup { Article(PyStr(""), PyStr("Kreatin"), Html(<<P(Intros.direct_def), script>>), Meta(140)) :
             script \in NoFaqSchemas }

\* what a container of boilerplate can hold: headings, facts, sources, an FAQ,
\* a list, a table, 500 words
NoiseContents ==
    H2s(3) \o <<FactsPara(3)>> \o SourceNodes(TRUE, TRUE, TRUE) \o FaqNodes(TRUE)
    \o <<FaqDl>> \o ListNodes(1) \o TableNodes(1) \o Filler(500)

NoiseKinds == {"header", "footer", "nav", "aside", "form", "noscript", "script", "modal"}

\* a container of the kind: the element of that name, a script (its content is
\* text: here JSON-LD), a div with aria-modal="true"
NoiseContainer(kind) ==
    IF kind = "script" THEN FaqSchema
    ELSE IF kind = "modal" THEN WithAriaModal(El("div", NoiseContents), "true")
    ELSE El(kind, <<El("div", NoiseContents)>>)

\* the article without boilerplate: one paragraph
BareDoc == <<P(Intros.question_nodef)>>

\* the paragraph and a container, at the top or two levels down
NoiseDoc(kind, depth) ==
    BareDoc \o (IF depth = 0 THEN <<NoiseContainer(kind)>>
                ELSE <<El("div", <<El("section", <<NoiseContainer(kind)>>)>>)>>)

NoiseInputs ==
    { Article(PyStr(""), PyStr("Kreatin"), Html(NoiseDoc(kind, depth)), Meta(140)) :
        kind \in NoiseKinds, depth \in {0, 2} }
    \cup { Article(PyStr(""), PyStr("Kreatin"), Html(BareDoc), Meta(140)) }

\* three facts, each a number with a unit: in mg, g and kcal; in mg, % and kcal
ScenarioFacts ==
    { "Davka 5 mg denne, 10 g bielkovin a 200 kcal navyse.",
      "Davka 5 mg denne, 10% bielkovin a 200 kcal navyse." }

\* the article of the end-to-end scenario: an 8-word first sentence that is no
\* question and holds the definition "Kreatin je", 4 h2 headings, three facts, a
\* "Zdroje" section with a link to who.int, an FAQ heading, 2 lists, 1 table and
\* words more words
ScenarioDoc(facts, words) ==
    <<P(Intros.direct_def)>> \o H2s(4) \o <<P(facts)>>
    \o SourceNodes(TRUE, TRUE, TRUE) \o FaqNodes(TRUE) \o ListNodes(2)
    \o TableNodes(1) \o Filler(words)

\* the scenario with a meta description of 145 characters
ScenarioInputs ==
    { Article(PyStr(""), title, Html(ScenarioDoc(facts, words)), Meta(145)) :
        title \in {PyStr("Kreatin"), PyStr("")}, facts \in ScenarioFacts,
        words \in {500, 520} }

\* markup without text: empty headings, lists and tables, blank text, text only
\* inside a footer or a script
EmptyMarkup ==
    { <<El("h2", <<>>), El("h2", <<>>), El("h2", <<Text(" ")>>), El("ul", <<El("li", <<>>)>>),
        El("table", <<El("tr", <<El("td", <<>>)>>)>>)>>,
      <<El("div", <<El("ol", <<>>), Text("\n\t")>>), El("table", <<>>)>>,
      <<El("footer", <<P(Intros.direct_def), FactsPara(3)>>), El("h2", <<>>)>>,
      <<ScriptEl("text/javascript", "var davka = \"5 mg 10 g 200 kcal\";"), El("dl", <<>>)>> }

EmptyTextInputs ==
    { Article(PyStr(""), title, Html(tree), meta) :
        title \in {PyNone, PyStr("Kreatin")}, tree \in EmptyMarkup,
        meta \in {PyNone, Meta(140)} }

ApiInputs ==
    VerdictInputs \cup SourcesInputs \cup EdgeInputs \cup FaqInputs \cup NoiseInputs
    \cup ScenarioInputs \cup EmptyTextInputs

\* a direct call of one of the checks: the function, its arguments (those it
\* does not take are left empty) and n and m, its keyword arguments
CheckCall(fn, plain_text, soup, title, meta_description, n, m) ==
    [fn |-> fn, plain_text |-> plain_text, soup |-> soup, title |-> title,
     meta_description |-> meta_description, n |-> n, m |-> m]

\* texts for check_definition: a definition, in capitals, after a stopword
\* sentence, behind 20 characters of other text; a term with a hyphen, of two
\* letters, of two characters; a stopword only; "je" as the start of a longer word
DefinitionTexts ==
    { "Kreatín je doplnok vyzivy pre silu a vykon.",
      "KREATÍN JE DOPLNOK.",
      "Toto je úvod. Kreatín predstavuje doplnok.",
      "Dnes uz vieme viac ako vcera. Kreatín znamená silu.",
      "Beta-alanín je aminokyselina.",
      "Q-x je koenzym.",
      "Ab je kratke.",
      "Toto je clanok o sile.",
      "Kreatín jednoducho funguje.",
      "  Vitamíny   je  vela.  ",
      "" }

DefinitionTitles ==
    { PyNone, PyStr(""), PyStr("Kreatín"), PyStr("Vitamíny"), PyStr("Alanín"),
      PyStr("  KREATÍN a sila ") }

DefinitionCalls ==
    { CheckCall("check_definition", t, <<>>, title, PyNone, n, 0) :
        t \in DefinitionTexts, title \in DefinitionTitles,
        n \in {DEFAULT_WINDOW_CHARS, 20, 0} }

\* texts for check_facts: the three facts "5 mg", "10%" and "200 kcal", two of
\* them, facts without a blank, with decimals, a percentage in front of a word
\* character, more than three, none
FactsTexts ==
    { "Davka 5 mg, 10% a 200 kcal.",
      "5 mg 10% 200 kcal",
      "Davka 5 mg a 200 kcal navyse.",
      "5mg 10g 3 kg",
      "1,5 g a 2.5 mg a 10 ML",
      "10%x 20%y 30%z",
      "2 gramov, 3 miligramov, 4 mcg, 5 ml",
      "V roku 2020 to bolo 15 ludi.",
      "" }

FactsCalls ==
    { CheckCall("check_facts", t, <<>>, PyNone, PyNone, n, 0) :
        t \in FactsTexts, n \in {DEFAULT_MIN_FACTS, 2, 4} }

\* meta descriptions for check_meta_description: None, empty, blank, of the
\* lengths around the limits, and of length 120 and 160 with blanks around
MetaDescriptions ==
    { PyNone, PyStr(""), PyStr("   "),
      PyStr("  " \o Rep("m", 120) \o " "), PyStr(" " \o Rep("m", 119)),
      PyStr("\n" \o Rep("m", 160) \o "\t ") }
    \cup { Meta(k) : k \in {99, 100, 101, 119, 120, 121, 139, 140, 141, 159, 160, 161, 165} }

\* n, m: the limits min_len, max_len
MetaCalls ==
    { CheckCall("check_meta_description", "", <<>>, PyNone, md, l[1], l[2]) :
        md \in MetaDescriptions,
        l \in {<<DEFAULT_MIN_LEN, DEFAULT_MAX_LEN>>, <<100, 140>>, <<140, 140>>} }

\* a first sentence of six word tokens (35 characters)
SixWords == "Kreatín je doplnok vyzivy pre silu."

\* texts for check_direct_answer: six and five word tokens, a hyphenated word;
\* a banned phrase in the first sentence, in the second, in capitals, behind
\* character 150, across it and just before it; a question, a "?" inside the
\* sentence early and late, a question of more than 400 characters; nothing
DirectAnswerTexts ==
    { SixWords,
      "Kreatín je doplnok pre silu.",
      "Beta-alanín je dobra latka.",
      "Beta-alanín je velmi dobra latka.",
      "V tomto clanku je doplnok vyzivy pre silu.",
      SixWords \o " Dozviete sa viac.",
      "KREATÍN je doplnok vyzivy pre silu. ZISTÍTE viac.",
      SixWords \o " " \o Rep("x", 115) \o " pozrieme sa dalej.",
      SixWords \o " " \o Rep("x", 105) \o " pozrieme sa dalej.",
      SixWords \o " " \o Rep("x", 100) \o " pozrieme sa dalej.",
      "Je kreatín doplnok vyzivy pre silu?",
      "Naozaj?Kreatín je doplnok vyzivy pre silu.",
      Rep("slovo ", 21) \o "co?nie je to tak.",
      Rep("slovo ", 70) \o "ano?",
      Rep("slovo ", 70) \o "ano.",
      "  Kreatín je doplnok vyzivy pre silu!  Dalej?",
      "   ",
      "" }

DirectAnswerCalls ==
    { CheckCall("check_direct_answer", t, <<>>, PyNone, PyNone, 0, 0) : t \in DirectAnswerTexts }

\* a tree with k h2 elements, the last one inside a div, among other headings
HeadingTree(k) ==
    <<El("h1", <<Text("Kreatin")>>)>>
    \o SubSeq(H2s(k), 1, k - 1)
    \o (IF k > 0 THEN <<El("div", <<El("section", <<H2s(k)[k]>>)>>)>> ELSE <<>>)
    \o <<El("h3", <<Text("Poznamky")>>)>>

\* a tree with ul unordered and ol ordered lists (these inside a div), and a dl
ListTree(ul, ol) ==
    ListNodes(ul)
    \o [i \in 1..ol |-> El("div", <<El("ol", <<El("li", <<Text("krok")>>)>>)>>)]
    \o <<FaqDl>>

\* a tree with k tables, each inside a div, and a paragraph
TableTree(k) ==
    [i \in 1..k |-> El("div", <<TableNodes(1)[1]>>)] \o <<P("tabulka")>>

\* the direct calls of the four checks that compare a count with a threshold
CountCalls ==
    { CheckCall("check_h2_headings", "", HeadingTree(k), PyNone, PyNone, n, 0) :
        k \in 0..4, n \in {DEFAULT_MIN_H2, 1} }
    \cup { CheckCall("check_lists", "", ListTree(ul, ol), PyNone, PyNone, n, 0) :
             ul \in 0..2, ol \in 0..2, n \in {DEFAULT_MIN_LISTS, 2} }
    \cup { CheckCall("check_tables", "", TableTree(k), PyNone, PyNone, n, 0) :
             k \in 0..2, n \in {DEFAULT_MIN_TABLES, 2} }
    \cup { CheckCall("check_word_count", t, <<>>, PyNone, PyNone, n, 0) :
             t \in { Rep("w ", k) : k \in {0, 1, 499, 500, 501} }
                   \cup {"Beta-alanín je, dobre!"},
             n \in {DEFAULT_MIN_WORDS, 4} }

\* the calls of build_report_row on the result of analyze_article for an article:
\* soup holds the tree of its content_html
RowCalls ==
    { CheckCall("build_report_row", "",
                Doc(intro, h2, facts, <<src, src, src>>, src, lists, lists, words),
                title, Meta(m), 0, 0) :
        intro \in {"direct_def", "question_nodef"}, h2 \in {2, 3}, facts \in {2, 3},
        src \in BOOLEAN, lists \in {0, 1}, words \in {0, 500}, m \in {100, 140},
        title \in {PyStr("Kreatin"), PyNone} }

\* hrefs for check_sources: to a whitelisted host (with www., in capitals, with
\* a port, a host of the list that has another one as its tail), to hosts that
\* only begin with a whitelisted domain, with a whitelisted URL in the query or
\* the path, to other hosts
SourceHrefs ==
    { "https://www.who.int/report", "http://who.int", "https://WHO.INT/x",
      "https://who.int:443/x", "https://pubmed.ncbi.nlm.nih.gov/123",
      "https://who.int.example.com/x", "https://nih.gov.evil.sk/",
      "https://example.com/?u=https://who.int/a", "https://example.com/https://nih.gov",
      "https://who.internal/x", "https://apps.who.int/x", "https://example.com/a" }

\* the calls of check_sources on a document of one or two links and no text
SourcesCalls ==
    { CheckCall("check_sources", "", <<Link(h, <<Text("odkaz")>>)>>, PyNone, PyNone, 0, 0) :
        h \in SourceHrefs }
    \cup { CheckCall("check_sources", "",
                     <<Link(g, <<Text("prvy")>>), El("p", <<Link(h, <<Text("druhy")>>)>>)>>,
                     PyNone, PyNone, 0, 0) :
             g \in {"https://www.who.int/report", "https://example.com/a"},
             h \in {"https://who.int.example.com/x", "https://nih.gov/", "https://example.com/b"} }

\* the rows the report script renders: of the result of analyze_article for an
\* article with every criterion passed, with none, and with some
RenderCalls ==
    { CheckCall("recCount", "",
                Doc(intro, 3, 3, <<src, src, src>>, src, lists, lists, words),
                PyStr("Kreatin"), Meta(m), 0, 0) :
        intro \in {"direct_def", "question_nodef"}, src \in BOOLEAN, lists \in {0, 1},
        words \in {0, 500}, m \in {100, 140} }
    \cup { CheckCall("recCount", "", <<>>, PyNone, PyNone, 0, 0) }

CheckCalls ==
    DefinitionCalls \cup FactsCalls \cup MetaCalls \cup DirectAnswerCalls \cup CountCalls
    \cup RowCalls \cup SourcesCalls \cup RenderCalls

\* html_to_text, of a value without markup or entities (the quick path)
HtmlToText(value) == Strip(SafeStr(value))

\* the title normalize_article gives an article whose object has none
NO_TITLE == "(no title)"

\* normalize_article, of an object of the JSON schema (url, title, content_html,
\* meta_description; each may be missing: None) that has a url
normalize_article(obj) ==
    Article(PyStr(Strip(SafeStr(obj.url))),
            PyStr(Strip(IF HtmlToText(obj.title) = "" THEN NO_TITLE
                        ELSE HtmlToText(obj.title))),
            IF obj.content_html = HtmlNone THEN Html(<<>>) ELSE obj.content_html,
            PyStr(Strip(HtmlToText(obj.meta_description))))

\* The objects of the input file: an article with everything, and an article
\* with a definition in its text and neither title nor meta description.
JsonObjects ==
    { Article(PyStr("https://example.sk/kreatin"), PyStr("Kreatin"),
              Html(Doc("direct_def", 3, 3, <<TRUE, TRUE, TRUE>>, TRUE, 1, 1, 0)), Meta(140)),
      Article(PyStr(" https://example.sk/bez-nazvu "), PyNone,
              Html(<<P(Intros.direct_def)>>), PyNone) }

\* Articles as the loaders of main.py build them: every field a str, url and title
\* stripped and not empty.  (The objects here have a url; one without becomes a
\* placeholder article with empty content.)
LoaderArticles == {normalize_article(obj) : obj \in JsonObjects}

\* no loader is running
NoLoader == [fn |-> "none"]

\* no report is open
NoBrowser == [rows |-> <<>>]

\* the longest batch of a run of main
MaxBatch == 2
\* the most faults (see FaultPoints) in one run
MaxFaults == 1

RECURSIVE SeqsUpTo(_, _)
SeqsUpTo(S, n) ==
    IF n = 0 THEN {<<>>}
    ELSE LET shorter == SeqsUpTo(S, n - 1)
         IN shorter \cup {Append(q, x) : q \in {r \in shorter : Len(r) = n - 1}, x \in S}

(***************************************************************************)
(* A caller's use of analyze_article: one call, on any of ApiInputs.       *)
(***************************************************************************)
InitApi ==
    /\ pc = "call"
    /\ articles \in {<<a>> : a \in ApiInputs}
    /\ strict \in BOOLEAN
    /\ rows = <<>>
    /\ outcomes = <<>>
    /\ written = <<>>
    /\ loader = NoLoader
    /\ browser = NoBrowser

CallAnalyze ==
    /\ pc = "call"
    /\ \E fault \in FaultPoints \ {"row"} :
          outcomes' = << analyze_article(articles[1].content_html,
                                         articles[1].meta_description,
                                         articles[1].title, strict, fault) >>
    /\ pc' = "returned"
    /\ UNCHANGED <<articles, strict, rows, written, loader, browser>>

NextApi == CallAnalyze

SpecApi == InitApi /\ [][NextApi]_vars

(***************************************************************************)
(* A caller's use of one of the checks: one call, on any of CheckCalls.    *)
(***************************************************************************)
InitChecks ==
    /\ pc = "check"
    /\ articles \in {<<c>> : c \in CheckCalls}
    /\ strict \in BOOLEAN
    /\ rows = <<>>
    /\ outcomes = <<>>
    /\ written = <<>>
    /\ loader = NoLoader
    /\ browser = NoBrowser

\* the call returns: outcomes holds what it returned
Return(result) ==
    /\ outcomes' = << result >>
    /\ pc' = "checked"
    /\ UNCHANGED <<articles, strict, rows, written, loader, browser>>

CallCheckDefinition ==
    /\ pc = "check"
    /\ articles[1].fn = "check_definition"
    /\ Return(check_definition(articles[1].plain_text, OrEmpty(articles[1].title).s,
                               strict, articles[1].n))

CallCheckFacts ==
    /\ pc = "check"
    /\ articles[1].fn = "check_facts"
    /\ Return(check_facts(articles[1].plain_text, articles[1].n))

CallCheckMetaDescription ==
    /\ pc = "check"
    /\ articles[1].fn = "check_meta_description"
    /\ Return(check_meta_description(OrEmpty(articles[1].meta_description).s,
                                     articles[1].n, articles[1].m))

CallCheckDirectAnswer ==
    /\ pc = "check"
    /\ articles[1].fn = "check_direct_answer"
    /\ Return(check_direct_answer(articles[1].plain_text))

CallCheckH2Headings ==
    /\ pc = "check"
    /\ articles[1].fn = "check_h2_headings"
    /\ Return(check_h2_headings(articles[1].soup, articles[1].n))

CallCheckLists ==
    /\ pc = "check"
    /\ articles[1].fn = "check_lists"
    /\ Return(check_lists(articles[1].soup, articles[1].n))

CallCheckTables ==
    /\ pc = "check"
    /\ articles[1].fn = "check_tables"
    /\ Return(check_tables(articles[1].soup, articles[1].n))

CallCheckWordCount ==
    /\ pc = "check"
    /\ articles[1].fn = "check_word_count"
    /\ Return(check_word_count(articles[1].plain_text, articles[1].n))

\* result = analyze_article(...); row = build_report_row(url, title, result):
\* the row, and the result as it is after the call
RowOfResult(url, title, result) ==
    [result |-> result, row |-> build_report_row(url, title, result)]

CallBuildReportRow ==
    /\ pc = "check"
    /\ articles[1].fn = "build_report_row"
    /\ Return(RowOfResult(PyStr(" https://example.sk/clanok "), articles[1].title,
                          analyze_article(Html(articles[1].soup),
                                          articles[1].meta_description,
                                          articles[1].title, strict, "none").res))

CallCheckSources ==
    /\ pc = "check"
    /\ articles[1].fn = "check_sources"
    /\ Return(check_sources(articles[1].plain_text, articles[1].soup, strict))

\* s.split(c)
RECURSIVE Split(_, _)
Split(s, c) ==
    LET at == {i \in 1..Len(s) : Ch(s, i) = c}
    IN IF at = {} THEN <<s>>
       ELSE <<SubSeq(s, 1, MinOf(at) - 1)>> \o Split(SubSeq(s, MinOf(at) + 1, Len(s)), c)

\* s.split("|").map(x => x.trim()).filter(Boolean)
SplitTrimmed(s) ==
    LET parts == Split(s, "|")
    IN SelectSeq([k \in 1..Len(parts) |-> Strip(parts[k])], LAMBDA x : x # "")

\* recCount(recs) of the report script
recCount(recs) == IF Strip(recs) = "" THEN 0 ELSE Len(SplitTrimmed(Strip(recs)))

\* the list items openModal builds for a row
ModalItems(row) ==
    IF Strip(row.recommendations) = "" THEN <<>> ELSE SplitTrimmed(Strip(row.recommendations))

\* what the report shows for the row of a result: the count badge of the
\* recommendations cell and the items of the modal
RenderedRow(result, payload_row) ==
    [result |-> result, row |-> payload_row,
     badge |-> recCount(payload_row.recommendations), items |-> ModalItems(payload_row)]

\* analyze_article, build_report_row, write_html_report, then the script's
\* rendering of the row
CallRenderRow ==
    /\ pc = "check"
    /\ articles[1].fn = "recCount"
    /\ LET result == analyze_article(Html(articles[1].soup), articles[1].meta_description,
                                     articles[1].title, strict, "none").res
       IN Return(RenderedRow(result,
              write_html_report(<<build_report_row(PyStr("https://example.sk/clanok"),
                                                   articles[1].title, result)>>).rows[1]))

NextChecks ==
    \/ CallCheckDefinition
    \/ CallCheckFacts
    \/ CallCheckMetaDescription
    \/ CallCheckDirectAnswer
    \/ CallCheckH2Headings
    \/ CallCheckLists
    \/ CallCheckTables
    \/ CallCheckWordCount
    \/ CallBuildReportRow
    \/ CallCheckSources
    \/ CallRenderRow

SpecChecks == InitChecks /\ [][NextChecks]_vars

(***************************************************************************)
(* A run of main (main.py:403-448): the loop over the loaded articles, then *)
(* the writing of the reports.                                             *)
(***************************************************************************)
FaultsSoFar == Len(SelectSeq(outcomes, LAMBDA o : o.fault # "none"))

Init ==
    /\ pc = "loop"
    /\ articles \in SeqsUpTo(LoaderArticles, MaxBatch)
    /\ strict \in BOOLEAN
    /\ rows = <<>>
    /\ outcomes = <<>>
    /\ written = <<>>
    /\ loader = NoLoader
    /\ browser = NoBrowser

\* RowOf with a failure that sticks: once an article of the batch failed, every
\* later article gets the row of the except branch
RowOfAfterFailure(a, fault, out) ==
    IF out.raised \/ (\E i \in 1..Len(outcomes) : outcomes[i].raised)
    THEN ErrorRow(a, IF out.raised THEN out.ex ELSE "earlier failure")
    ELSE IF fault = "row" THEN ErrorRow(a, "unexpected error in row")
    ELSE build_report_row(a.url, a.title, out.res)

\* the row of an article: of the result, or of the except branch when
\* analyze_article or build_report_row raised
RowOf(a, fault, out) ==
    IF out.raised THEN ErrorRow(a, out.ex)
    ELSE IF fault = "row" THEN ErrorRow(a, "unexpected error in row")
    ELSE build_report_row(a.url, a.title, out.res)

LoopBody(a, fault, out) ==
    /\ outcomes' = Append(outcomes, out)
    /\ rows' = Append(rows, RowOf(a, fault, out))

\* analyze_article(a.content_html, a.meta_description, title=a.title, strict=...)
\* for every loaded article, value of strict and fault, evaluated once
Analysed ==
    [a \in LoaderArticles, st \in BOOLEAN, fault \in FaultPoints |->
        analyze_article(a.content_html, a.meta_description, a.title, st, fault)]

\* one iteration of "for idx, a in enumerate(articles)"
AnalyzeNext ==
    /\ pc = "loop"
    /\ Len(rows) < Len(articles)
    /\ \E fault \in FaultPoints :
          /\ fault = "none" \/ FaultsSoFar < MaxFaults
          /\ LoopBody(articles[Len(rows) + 1], fault,
                      Analysed[articles[Len(rows) + 1], strict, fault])
    /\ UNCHANGED <<pc, articles, strict, written, loader, browser>>

\* write_csv_report(out_csv, rows), and write_html_report(out_html, rows) when
\* --html names a file
WriteReports ==
    /\ pc = "loop"
    /\ Len(rows) = Len(articles)
    /\ \E html \in BOOLEAN :
          written' = <<write_csv_report(rows)>>
                     \o (IF html THEN <<write_html_report(rows)>> ELSE <<>>)
    /\ pc' = "written"
    /\ UNCHANGED <<articles, strict, rows, outcomes, loader, browser>>

Next == AnalyzeNext \/ WriteReports

Spec == Init /\ [][Next]_vars

(***************************************************************************)
(* The loaders of main.py (main.py:148-340).  The network and the files    *)
(* are the environment: what a request returns is drawn at the request.    *)
(***************************************************************************)
\* An element of the list of a JSON file or of a page of the WordPress API: a dict,
\* with the values of its keys (title and content_html stand for what lines
\* 190-207 pick: title.rendered, content.rendered, ...), or a value that is no dict.
JsonItem(isDict, url, link, title, content_html, meta_description) ==
    [isDict |-> isDict, url |-> url, link |-> link, title |-> title,
     content_html |-> content_html, meta_description |-> meta_description]

\* url = safe_str(obj.get("url")) or safe_str(obj.get("link"))
UrlOrLink(item) == IF SafeStr(item.url) # "" THEN item.url ELSE item.link

\* normalize_article raises ValueError("Article missing url/link")
MissingUrl(item) == SafeStr(UrlOrLink(item)) = ""

\* the article of the except branches of the loaders: empty content and meta
PlaceholderArticle(url, title) == Article(PyStr(url), PyStr(title), Html(<<>>), PyStr(""))

NormalizeItem(item) ==
    normalize_article(Article(UrlOrLink(item), item.title, item.content_html,
                              item.meta_description))

\* JsonArticleOf that drops what cannot be normalized
JsonArticleOfValid(i, obj) ==
    IF ~obj.isDict \/ MissingUrl(obj) THEN <<>> ELSE <<NormalizeItem(obj)>>

\* The body of the loop of load_articles_from_json for element i (from 0): the
\* articles it appends.
JsonArticleOf(i, obj) ==
    IF ~obj.isDict THEN <<>>
    ELSE IF MissingUrl(obj)
    THEN <<PlaceholderArticle("(invalid) index=" \o ToString(i),
                              "(invalid article) index=" \o ToString(i))>>
    ELSE <<NormalizeItem(obj)>>

RECURSIVE JsonArticlesFrom(_, _)
JsonArticlesFrom(data, i) ==
    IF i >= Len(data) THEN <<>>
    ELSE JsonArticleOf(i, data[i + 1]) \o JsonArticlesFrom(data, i + 1)

\* the body of the inner loop of load_articles_from_wp for item i (from 0) of a page
WpArticleOf(page, i, obj) ==
    IF ~obj.isDict THEN <<>>
    ELSE IF MissingUrl(obj)
    THEN <<PlaceholderArticle("(invalid) wp_page=" \o ToString(page) \o " idx=" \o ToString(i),
                              "(invalid wp post) page=" \o ToString(page)
                                  \o " idx=" \o ToString(i))>>
    ELSE <<NormalizeItem(obj)>>

RECURSIVE WpArticlesFrom(_, _, _)
WpArticlesFrom(page, data, i) ==
    IF i >= Len(data) THEN <<>>
    ELSE WpArticleOf(page, i, data[i + 1]) \o WpArticlesFrom(page, data, i + 1)

\* WpPerPage without the clamp
WpPerPageAsGiven(per_page) == per_page

\* per_page = max(1, min(int(per_page), 100))
WpPerPage(per_page) ==
    IF per_page > 100 THEN 100 ELSE IF per_page < 1 THEN 1 ELSE per_page

\* max_pages = max(1, int(max_pages))
WpMaxPages(max_pages) == IF max_pages < 1 THEN 1 ELSE max_pages

\* UrlsOf that keeps the comment lines
UrlsOfWithComments(lines) ==
    LET stripped == [k \in 1..Len(lines) |-> Strip(lines[k])]
    IN SelectSeq(stripped, LAMBDA l : l # "")

\* urls = [line.strip() for line in ... if line.strip() and not
\* line.strip().startswith("#")]
UrlsOf(lines) ==
    LET stripped == [k \in 1..Len(lines) |-> Strip(lines[k])]
    IN SelectSeq(stripped, LAMBDA l : l # "" /\ ~LitAt(l, 1, "#"))

\* The body of the loop of load_articles_from_urls_file: the article of a url,
\* given what http_get and extract_title_meta_and_content did (raised, or the
\* title, meta description and content of the page).
UrlArticleOf(url, fetched) ==
    IF fetched.raised THEN PlaceholderArticle(url, "(fetch error) " \o url)
    ELSE Article(PyStr(url), PyStr(IF fetched.title = "" THEN url ELSE fetched.title),
                 fetched.content_html, PyStr(fetched.meta_description))

Fetched(raised, title, meta_description, content_html) ==
    [raised |-> raised, title |-> title, meta_description |-> meta_description,
     content_html |-> content_html]

\* what fetching a url can give
FetchResults ==
    { Fetched(TRUE, "", "", Html(<<>>)),
      Fetched(FALSE, "Kreatin", Rep("m", 140),
              Html(Doc("direct_def", 3, 3, <<TRUE, TRUE, TRUE>>, TRUE, 1, 1, 0))),
      Fetched(FALSE, "", "", Html(<<P(Intros.direct_def)>>)) }

\* the lines of a urls file
UrlsFileLines ==
    {"https://example.sk/a", "  https://example.sk/b  ", "", "   ", "# poznamka",
     "  #https://example.sk/c", "https://example.sk/a#cast"}

\* the longest urls file
MaxLines == 3

\* the elements of a JSON list
JsonItems ==
    { JsonItem(TRUE, PyStr("https://example.sk/kreatin"), PyNone, PyStr("Kreatin"),
               Html(Doc("direct_def", 3, 3, <<TRUE, TRUE, TRUE>>, TRUE, 1, 1, 0)), Meta(140)),
      JsonItem(TRUE, PyNone, PyStr(" https://example.sk/?p=7 "), PyNone,
               Html(<<P(Intros.direct_def)>>), PyNone),
      JsonItem(TRUE, PyNone, PyNone, PyStr("Bez adresy"),
               Html(<<P(Intros.direct_def)>>), Meta(140)),
      JsonItem(TRUE, PyStr("  "), PyStr(""), PyNone, HtmlNone, PyNone),
      JsonItem(FALSE, PyNone, PyNone, PyNone, HtmlNone, PyNone) }

\* the longest JSON list
MaxItems == 3

\* What the top of a JSON file can be: a list, a dict with a list under "articles",
\* another JSON value, or no JSON at all.
JsonTops == {"list", "articles", "other", "invalid"}

\* what a request of a page can give: http_get_json raised, a JSON value that is no
\* list, or a list
WpResponse(kind, data) == [kind |-> kind, data |-> data]

\* a post with a link, a post with neither url nor link, a value that is no dict
WpPost == CHOOSE x \in JsonItems : x.isDict /\ SafeStr(x.url) = "" /\ ~MissingUrl(x)
WpPostWithoutLink == CHOOSE x \in JsonItems : x.isDict /\ MissingUrl(x)
WpNoDict == CHOOSE x \in JsonItems : ~x.isDict

WpResponses ==
    { WpResponse("raised", <<>>), WpResponse("other", <<>>), WpResponse("list", <<>>),
      WpResponse("list", <<WpPost>>), WpResponse("list", <<WpNoDict>>),
      WpResponse("list", <<WpNoDict, WpPostWithoutLink, WpPost>>) }

\* the largest max_pages of a call
MaxPagesArg == 3

WpMaxPagesArgs == {-1} \cup 1..MaxPagesArg
WpPerPageArgs == {0, 1, 100, 500}

LoaderStarts ==
    /\ pc = "load"
    /\ articles = <<>>
    /\ strict = FALSE
    /\ rows = <<>>
    /\ outcomes = <<>>
    /\ written = <<>>
    /\ browser = NoBrowser

InitLoad ==
    /\ LoaderStarts
    /\ \/ loader \in { [fn |-> "urls", lines |-> lines, log |-> <<>>, stopped |-> FALSE] :
                         lines \in SeqsUpTo(UrlsFileLines, MaxLines) }
       \/ loader \in { [fn |-> "json", top |-> top, data |-> data, log |-> <<>>,
                        stopped |-> FALSE] :
                         top \in JsonTops, data \in SeqsUpTo(JsonItems, MaxItems) }

InitWp ==
    /\ LoaderStarts
    /\ loader \in { [fn |-> "wp", max_pages |-> max_pages, per_page |-> per_page,
                     log |-> <<>>, stopped |-> FALSE] :
                      max_pages \in WpMaxPagesArgs, per_page \in WpPerPageArgs }

\* one iteration of "for url in urls" of load_articles_from_urls_file
UrlsFetchNext ==
    /\ pc = "load"
    /\ loader.fn = "urls"
    /\ Len(loader.log) < Len(UrlsOf(loader.lines))
    /\ \E fetched \in FetchResults :
          LET url == UrlsOf(loader.lines)[Len(loader.log) + 1]
          IN /\ articles' = Append(articles, UrlArticleOf(url, fetched))
             /\ loader' = [loader EXCEPT !.log = Append(@, [url |-> url,
                                                             raised |-> fetched.raised])]
    /\ UNCHANGED <<pc, strict, rows, outcomes, written, browser>>

\* load_articles_from_json: json.loads, the choice of the list, the loop
LoadJson ==
    /\ pc = "load"
    /\ loader.fn = "json"
    /\ IF loader.top \in {"list", "articles"}
       THEN /\ articles' = JsonArticlesFrom(loader.data, 0)
            /\ pc' = "loaded"
       ELSE /\ articles' = articles
            /\ pc' = "raised"
    /\ UNCHANGED <<strict, rows, outcomes, written, loader, browser>>

\* one iteration of "for page in range(1, max_pages + 1)" of load_articles_from_wp
WpRequestPage ==
    /\ pc = "load"
    /\ loader.fn = "wp"
    /\ ~loader.stopped
    /\ Len(loader.log) < WpMaxPages(loader.max_pages)
    /\ \E resp \in WpResponses :
          LET page == Len(loader.log) + 1
          IN /\ loader' = [loader EXCEPT
                              !.log = Append(@, [page |-> page,
                                                 per_page |-> WpPerPage(loader.per_page),
                                                 kind |-> resp.kind, data |-> resp.data]),
                              !.stopped = resp.kind # "list" \/ resp.data = <<>>]
             /\ articles' = IF resp.kind = "list"
                            THEN articles \o WpArticlesFrom(page, resp.data, 0)
                            ELSE articles
    /\ UNCHANGED <<pc, strict, rows, outcomes, written, browser>>

\* "return articles" of load_articles_from_urls_file
UrlsReturn ==
    /\ pc = "load"
    /\ loader.fn = "urls"
    /\ Len(loader.log) = Len(UrlsOf(loader.lines))
    /\ pc' = "loaded"
    /\ UNCHANGED <<articles, strict, rows, outcomes, written, loader, browser>>

\* "return articles" of load_articles_from_wp
WpReturn ==
    /\ pc = "load"
    /\ loader.fn = "wp"
    /\ loader.stopped \/ Len(loader.log) = WpMaxPages(loader.max_pages)
    /\ pc' = "loaded"
    /\ UNCHANGED <<articles, strict, rows, outcomes, written, loader, browser>>

NextLoad == UrlsFetchNext \/ UrlsReturn \/ LoadJson

\* load_articles_from_urls_file and load_articles_from_json
SpecLoad == InitLoad /\ [][NextLoad]_vars

NextWp == WpRequestPage \/ WpReturn

\* load_articles_from_wp.  A loader is sequential code: its next statement is
\* executed, and a request returns or raises (http_get has a timeout).
FairSpecWp == InitWp /\ [][NextWp]_vars /\ WF_vars(NextWp)

(***************************************************************************)
(* The script of the HTML report (html_reporter.py:585-880), run by a      *)
(* browser on the payload write_html_report wrote.  A row is given by the  *)
(* columns the pager reads: url, title, score and recommendations.         *)
(***************************************************************************)
\* a.localeCompare(b), for titles of lower-case ASCII letters
LocaleCompare(a, b) == IF a = b THEN 0 ELSE IF StrLess(a, b) THEN -1 ELSE 1

\* the comparators of sortView; an unknown mode leaves the view as it is
SortCompare(mode, a, b) ==
    IF mode = "score_desc"
    THEN IF b.score - a.score # 0 THEN b.score - a.score ELSE LocaleCompare(a.title, b.title)
    ELSE IF mode = "score_asc"
    THEN IF a.score - b.score # 0 THEN a.score - b.score ELSE LocaleCompare(a.title, b.title)
    ELSE IF mode = "title_asc" THEN LocaleCompare(a.title, b.title)
    ELSE IF mode = "title_desc" THEN LocaleCompare(b.title, a.title)
    ELSE 0

\* x put into the sorted view behind every row that does not compare greater
InsertByMode(mode, sorted, x) ==
    LET greater == {j \in 1..Len(sorted) : SortCompare(mode, sorted[j], x) > 0}
        k == IF greater = {} THEN Len(sorted) + 1 ELSE MinOf(greater)
    IN SubSeq(sorted, 1, k - 1) \o <<x>> \o SubSeq(sorted, k, Len(sorted))

\* view.sort(...): Array.prototype.sort is stable
RECURSIVE sortView(_, _)
sortView(view, mode) ==
    IF view = <<>> THEN <<>>
    ELSE InsertByMode(mode, sortView(SubSeq(view, 1, Len(view) - 1), mode), view[Len(view)])

\* the filter of applyFilter: the rows whose url, title and recommendations hold q
FilterRows(rows_, value) ==
    LET q == LowerStr(Strip(value))
    IN IF q = "" THEN rows_
       ELSE SelectSeq(rows_, LAMBDA r :
                Contains(LowerStr(r.url \o " " \o r.title \o " " \o r.recommendations), q))

\* pageCount with the quotient rounded down
pageCountFloor(view, pageSize) ==
    IF Len(view) \div pageSize > 1 THEN Len(view) \div pageSize ELSE 1

\* Math.max(1, Math.ceil(view.length / pageSize))
pageCount(view, pageSize) ==
    LET ceil == (Len(view) + pageSize - 1) \div pageSize
    IN IF ceil > 1 THEN ceil ELSE 1

\* clampPage: the page index it leaves
clampPage(pageIndex, count) ==
    LET raised == IF pageIndex < 0 THEN 0 ELSE pageIndex
    IN IF raised >= count THEN count - 1 ELSE raised

\* render: the page index clamped, the options of the page select, the rows of the
\* table body, the page info and the state of the two buttons
render(b) ==
    LET count == pageCount(b.view, b.pageSize)
        idx == clampPage(b.pageIndex, count)
        start == idx * b.pageSize
        end == IF Len(b.view) < start + b.pageSize THEN Len(b.view) ELSE start + b.pageSize
    IN [b EXCEPT !.pageIndex = idx,
                 !.pageOptions = count,
                 !.shown = SubSeq(b.view, start + 1, end),
                 !.pageInfo = <<idx + 1, count>>,
                 !.prevDisabled = idx <= 0,
                 !.nextDisabled = idx >= count - 1]

\* the handler of the sort select that keeps the page
AfterSortChangeSamePage(b, mode) ==
    render([b EXCEPT !.sort = mode, !.view = sortView(b.view, mode), !.event = "sort"])

\* the handler of "change" of the sort select
AfterSortChange(b, mode) ==
    render([b EXCEPT !.sort = mode, !.view = sortView(b.view, mode), !.pageIndex = 0,
                     !.event = "sort"])

\* applyFilter, the handler of "input" of the filter box
applyFilter(b, value) ==
    render([b EXCEPT !.q = value, !.view = sortView(FilterRows(b.rows, value), b.sort),
                     !.pageIndex = 0, !.event = "filter"])

\* the handler of "change" of the page size select (parseInt(value, 10) || 10)
AfterPageSizeChange(b, size) ==
    render([b EXCEPT !.pageSize = IF size = 0 THEN 10 ELSE size, !.pageIndex = 0,
                     !.event = "size"])

\* the script up to its initial render, on the payload
OpenReport(payload) ==
    render([rows |-> payload.rows,
            view |-> sortView(payload.rows, "score_desc"),
            pageSize |-> IF payload.pageSize = 0 THEN 10 ELSE payload.pageSize,
            pageIndex |-> 0, sort |-> "score_desc", q |-> "", event |-> "open",
            pageOptions |-> 0, shown |-> <<>>, pageInfo |-> <<0, 0>>,
            prevDisabled |-> FALSE, nextDisabled |-> FALSE])

\* write_html_report: the payload of the report (rows and pageSize)
Payload(rows_, page_size) ==
    [rows |-> write_html_report(rows_).rows,
     pageSize |-> IF page_size > 1 THEN page_size ELSE 1]

ReportTitles == <<"kreatin", "horcik", "zinok">>

\* row k of a batch: its columns url, title, score and recommendations
ReportRow(k) ==
    [url |-> "//a.sk/" \o ToString(k),
     title |-> ReportTitles[(k % 3) + 1],
     score |-> ((k * 7) % 4) * 3,
     recommendations |-> IF k % 2 = 1 THEN "Pridajte FAQ." ELSE ""]

\* the longest batch of a report
MaxReportRows == 21

ReportSizes == {0, 3, MaxReportRows}

\* --page-size
PageSizeArgs == {0, 1, 2}

\* the options of the sort select and of the page size select
SORT_MODES == {"score_desc", "score_asc", "title_asc", "title_desc"}
PAGE_SIZES == {10, 20, 50}

\* what is typed into the filter box
FilterValues == {"", " KREATIN ", "sk/2", "jod"}

InitPager ==
    /\ pc = "report"
    /\ articles = <<>>
    /\ strict = FALSE
    /\ rows = <<>>
    /\ outcomes = <<>>
    /\ written = <<>>
    /\ loader = NoLoader
    /\ browser \in { OpenReport(Payload([k \in 1..n |-> ReportRow(k)], page_size)) :
                       n \in ReportSizes, page_size \in PageSizeArgs }

Handled(b) ==
    /\ browser' = b
    /\ UNCHANGED <<pc, articles, strict, rows, outcomes, written, loader>>

FilterInput == pc = "report" /\ \E value \in FilterValues : Handled(applyFilter(browser, value))

SortChange == pc = "report" /\ \E mode \in SORT_MODES : Handled(AfterSortChange(browser, mode))

PrevClick ==
    /\ pc = "report"
    /\ ~browser.prevDisabled
    /\ Handled(render([browser EXCEPT !.pageIndex = @ - 1, !.event = "prev"]))

NextClick ==
    /\ pc = "report"
    /\ ~browser.nextDisabled
    /\ Handled(render([browser EXCEPT !.pageIndex = @ + 1, !.event = "next"]))

PageSelectChange ==
    /\ pc = "report"
    /\ \E value \in 0..(browser.pageOptions - 1) :
          Handled(render([browser EXCEPT !.pageIndex = value, !.event = "select"]))

PageSizeChange ==
    /\ pc = "report"
    /\ \E size \in PAGE_SIZES : Handled(AfterPageSizeChange(browser, size))

NextPager ==
    FilterInput \/ SortChange \/ PrevClick \/ NextClick \/ PageSelectChange \/ PageSizeChange

SpecPager == InitPager /\ [][NextPager]_vars

(***************************************************************************)
(* Properties.  outcomes[i] is what the i-th call of analyze_article did,  *)
(* rows[i] the row the loop of main appended for articles[i].              *)
(***************************************************************************)
Calls == 1..Len(outcomes)

\* the calls that returned an AuditResult
ReturnedCalls == {i \in Calls : ~outcomes[i].raised}

\* the criteria whose verdict is true in an AuditResult
Passed(res) == {k \in 1..Len(CRITERIA) : res[CRITERIA[k]]}

\* the criteria whose verdict is false, in canonical order
Failed(res) == SelectSeq(CRITERIA, LAMBDA c : ~res[c])

\* the arguments are of the declared types: title and meta_description a str (or None)
TypedCall(i) == ~NotStr(articles[i].title) /\ ~NotStr(articles[i].meta_description)

\* C1: the score of every AuditResult analyze_article returns is the number of
\* true verdicts among its ten verdict fields (no weights, no partial credit).
C1_ScoreCountsTrueVerdicts ==
    \A i \in ReturnedCalls :
        outcomes[i].res.score = Cardinality(Passed(outcomes[i].res))

\* C1 happens: a result with some verdicts true and some false.
C1_Witness ==
    \E i \in ReturnedCalls :
        /\ outcomes[i].res.score = 7
        /\ outcomes[i].res.meta_ok
        /\ ~outcomes[i].res.direct_answer

\* C2: every AuditResult has 0 <= score <= 10 and as many recommendations as
\* 10 - score.
C2_ScoreRangeAndRecommendationCount ==
    \A i \in ReturnedCalls :
        /\ outcomes[i].res.score \in 0..10
        /\ Len(outcomes[i].res.recommendations) = 10 - outcomes[i].res.score

\* C2 happens: a result with score 4 and six recommendations.
C2_Witness ==
    \E i \in ReturnedCalls :
        /\ outcomes[i].res.score = 4
        /\ Len(outcomes[i].res.recommendations) = 6

\* C3: the recommendations are the catalog strings of the failed criteria, one
\* each, in canonical order, and nothing else (so the string of a criterion is
\* there once if its verdict is false and not at all if it is true).
C3_RecommendationsOfFailedInOrder ==
    \A i \in ReturnedCalls :
        outcomes[i].res.recommendations =
            [k \in 1..Len(Failed(outcomes[i].res)) |->
                RECOMMENDATIONS_TEXT[Failed(outcomes[i].res)[k]]]

\* C3 happens: lists and tables fail together with an earlier and a later
\* criterion, the others pass.
C3_Witness ==
    \E i \in ReturnedCalls :
        Failed(outcomes[i].res) = <<"definition", "lists", "tables", "meta_ok">>

\* C4: when exactly one of the ten checks raises, the other nine are still
\* evaluated and analyze_article returns an AuditResult in which that check has
\* verdict false; the exception does not leave analyze_article.
C4_CheckFaultIsIsolated ==
    \A i \in Calls :
        Len(RaisingChecks(articles[i].meta_description, articles[i].title,
                          outcomes[i].fault)) = 1
        => /\ ~outcomes[i].raised
           /\ outcomes[i].ran = CRITERIA
           /\ ~outcomes[i].res[RaisingChecks(articles[i].meta_description,
                                             articles[i].title, outcomes[i].fault)[1]]

\* a row of the except branch: score 0, the ten verdict columns 0, the fault noted
DegradedRow(r) ==
    /\ r.score = 0
    /\ \A k \in 1..Len(CRITERIA) : r[CRITERIA[k]] = 0
    /\ Len(r.recommendations) > Len("Analysis error: ")
    /\ LitAt(r.recommendations, 1, "Analysis error: ")

\* the analysis or the row building of article i raised
ArticleFailed(i) == outcomes[i].raised \/ outcomes[i].fault = "row"

\* C5: the loop of main appends one row per article, in order, and the reports
\* are written from one row for each article of the batch; the row of an article
\* whose analysis or row building raised has score 0, ten verdict columns 0 and
\* the fault noted; every other article, also after a failed one, is analysed
\* with all ten checks and gets the row of its result.
C5_OneRowPerArticle ==
    /\ Len(rows) = Len(outcomes)
    /\ Len(rows) <= Len(articles)
    /\ pc = "written" =>
          \A r \in 1..Len(written) : Len(written[r].rows) = Len(articles)
    /\ \A i \in 1..Len(rows) :
          /\ rows[i].url = Strip(articles[i].url.s)
          /\ ArticleFailed(i) => DegradedRow(rows[i])
          /\ ~ArticleFailed(i) =>
                /\ outcomes[i].ran = CRITERIA
                /\ rows[i].score = outcomes[i].res.score
                /\ rows[i].word_count =
                       outcomes[i].res.details.word_count_ok.word_count

\* C5 happens: a batch is written whose first article failed and whose next
\* article was analysed and scored.
C5_Witness ==
    /\ pc = "written"
    /\ Len(written[1].rows) = Len(articles)
    /\ Len(articles) >= 2
    /\ outcomes[1].raised
    /\ ~ArticleFailed(2)
    /\ rows[1].score = 0
    /\ rows[2].score > 0

\* content_html is None or empty, or the parser rejects it
NoDocument(c) == c \in {HtmlNone, Html(<<>>), HtmlRejected}

\* C6: with content_html None, empty or malformed, or with parsing or text
\* extraction failing, analyze_article does not raise; the checks are given the
\* empty tree and the empty plain text, all ten run, and a result is returned.
C6_NormalizationDegradesToEmpty ==
    \A i \in Calls :
        ( /\ TypedCall(i)
          /\ outcomes[i].fault \in {"none", "parse", "text"}
          /\ NoDocument(articles[i].content_html)
                \/ outcomes[i].fault \in {"parse", "text"} )
        => /\ ~outcomes[i].raised
           /\ outcomes[i].ran = CRITERIA
           /\ outcomes[i].soup = <<>>
           /\ outcomes[i].plain = ""

\* C7: with empty content_html and empty meta_description, whatever the title
\* and strict, all ten verdicts are false, the score is 0 and all ten
\* recommendations are given.
C7_EmptyArticleFailsEverything ==
    \A i \in Calls :
        ( /\ TypedCall(i)
          /\ outcomes[i].fault = "none"
          /\ articles[i].content_html \in {HtmlNone, Html(<<>>)}
          /\ articles[i].meta_description \in {PyNone, PyStr("")} )
        => /\ ~outcomes[i].raised
           /\ Passed(outcomes[i].res) = {}
           /\ outcomes[i].res.score = 0
           /\ Len(outcomes[i].res.recommendations) = 10

\* C7 happens: the empty str as content and as meta description, with a title.
C7_Witness ==
    \E i \in ReturnedCalls :
        /\ outcomes[i].fault = "none"
        /\ articles[i].content_html = Html(<<>>)
        /\ articles[i].meta_description = PyStr("")
        /\ articles[i].title = PyStr("Vitaminy")
        /\ outcomes[i].res.score = 0

\* the row of article a when nothing fails, whatever came before it
OwnRow(a) ==
    build_report_row(a.url, a.title, Analysed[a, strict, "none"].res)

\* C9: the row of an article is decided by its own url, title, content_html and
\* meta_description and by strict: the row just appended is the row of that
\* article alone, and equal articles at different places of a batch have equal
\* rows, also when an article between or before them failed.
C9_RowDependsOnOwnArticleOnly ==
    /\ \A i \in 1..Len(rows) : \A j \in 1..Len(rows) :
          ( /\ articles[i] = articles[j]
            /\ outcomes[i].fault = "none"
            /\ outcomes[j].fault = "none" ) => rows[i] = rows[j]
    /\ (rows # <<>> /\ outcomes[Len(rows)].fault = "none")
          => rows[Len(rows)] = OwnRow(articles[Len(rows)])

\* C9 happens: an article right after the failed analysis of the same article,
\* with the row it has on its own.
C9_Witness ==
    /\ Len(rows) >= 2
    /\ articles[1] = articles[2]
    /\ outcomes[1].raised
    /\ outcomes[2].fault = "none"
    /\ rows[1] # rows[2]
    /\ rows[2].score > 0

\* the evidence check_sources gives for call i
SourcesEvidence(i) == outcomes[i].res.details.sources

\* C10: the sources verdict is decided by the hint, the number W of whitelisted
\* links, the number H of http(s) links and strict: hint or W > 0 when not
\* strict, W > 0 or (hint and H > 0) when strict.  The text "Zdroje" without a
\* link passes when not strict and fails when strict.
C10_SourcesPolicy ==
    \A i \in ReturnedCalls :
        /\ outcomes[i].res.sources =
              IF strict
              THEN \/ SourcesEvidence(i).whitelisted_links_count > 0
                   \/ /\ SourcesEvidence(i).has_source_section
                      /\ SourcesEvidence(i).http_links_count > 0
              ELSE \/ SourcesEvidence(i).has_source_section
                   \/ SourcesEvidence(i).whitelisted_links_count > 0
        /\ SourcesEvidence(i).strict = strict
        /\ (outcomes[i].plain = "Zdroje" /\ FindAll(outcomes[i].soup, "a") = <<>>)
              => /\ SourcesEvidence(i).has_source_section
                 /\ outcomes[i].res.sources = ~strict

\* C10 happens: strict mode, the hint and an http link to a site that is not
\* whitelisted: the check passes.
C10_Witness ==
    \E i \in ReturnedCalls :
        /\ strict
        /\ SourcesEvidence(i).has_source_section
        /\ SourcesEvidence(i).whitelisted_links_count = 0
        /\ SourcesEvidence(i).http_links_count > 0
        /\ outcomes[i].res.sources

\* the direct calls of a check that have returned
Checked(fn) == {i \in Calls : articles[i].fn = fn}

\* what check_definition looks at: the window of the text and the title
WindowOf(c) == Prefix(Strip(c.plain_text), IF c.n > 0 THEN c.n ELSE 0)
TitleOf(c) == Strip(LowerStr(OrEmpty(c.title).s))

\* the term of the match of "<term> (je|znamená|predstavuje)" that starts at i
TermAt(window, i) == SubSeq(window, i, DefinitionMatchAt(window, i).termEnd)

LettersIn(s) == Cardinality({k \in 1..Len(s) : Ch(s, k) \in Letter})

\* the term is no stopword and, in strict mode with a title, occurs in the title
TermAccepted(term, title_l, strict_) ==
    /\ LowerStr(term) \notin DEFINITION_STOPWORDS
    /\ (strict_ /\ title_l # "") => Contains(title_l, LowerStr(term))

\* the starts of the matches a scan from left to right reports: each begins
\* behind the end of the one before
ScannedStarts(window) ==
    MatchSeq(DefinitionEnds(window, DefinitionStarts(window)), 1)

\* "Kreatín je doplnok výživy…": with title "Kreatín" the check passes in both
\* modes, with title "Vitamíny" only when not strict
KreatinExample(i) ==
    (articles[i].plain_text = "Kreatín je doplnok vyzivy pre silu a vykon."
        /\ articles[i].n = DEFAULT_WINDOW_CHARS)
    => /\ articles[i].title = PyStr("Kreatín") => outcomes[i].ok
       /\ articles[i].title = PyStr("Vitamíny") => (outcomes[i].ok = ~strict)

Untitled == {obj \in JsonObjects : OrEmpty(obj.title).s = ""}

\* C12: for an article that has no title in the input, strict mode applies no
\* title requirement to the definition check: the definition verdict of its row
\* is the one of non-strict mode, whatever strict is.
C12_NoTitleNoStrictRequirement ==
    \A i \in 1..Len(rows) :
        (~ArticleFailed(i) /\ \E obj \in Untitled : articles[i] = normalize_article(obj))
        => rows[i].definition =
              AsBool01(check_definition(outcomes[i].plain, "", FALSE,
                                        DEFAULT_WINDOW_CHARS).ok)

\* the number of facts check_facts found in call i
FactsFound(i) == outcomes[i].d.numbers_with_units_found

\* C13: check_facts passes exactly when the text has at least
\* min_numbers_with_units numbers followed by a unit; a text with exactly the
\* facts "5 mg", "10%" and "200 kcal" counts 3 and passes by default, one with
\* two of them fails.
C13_FactsCountNumbersWithUnits ==
    \A i \in Checked("check_facts") :
        /\ outcomes[i].ok <=> (FactsFound(i) >= articles[i].n)
        /\ articles[i].plain_text \in {"Davka 5 mg, 10% a 200 kcal.", "5 mg 10% 200 kcal"}
              => /\ FactsFound(i) = 3
                 /\ articles[i].n = DEFAULT_MIN_FACTS => outcomes[i].ok
        /\ articles[i].plain_text = "Davka 5 mg a 200 kcal navyse."
              => /\ FactsFound(i) = 2
                 /\ articles[i].n = DEFAULT_MIN_FACTS => ~outcomes[i].ok

\* the length of a meta description without the whitespace around it
TrimmedLen(md) ==
    IF md = PyNone THEN 0
    ELSE Cardinality({k \in 1..Len(md.s) :
            /\ \E a \in 1..k : Ch(md.s, a) \notin Space
            /\ \E b \in k..Len(md.s) : Ch(md.s, b) \notin Space})

\* C14: check_meta_description passes exactly when the length n of the trimmed
\* meta description has min_len <= n <= max_len (None has length 0); with the
\* defaults 120 and 160, lengths 120, 140 and 160 pass and 100, 119, 161 and
\* 165 fail.
C14_MetaLengthWithinLimits ==
    \A i \in Checked("check_meta_description") :
        /\ outcomes[i].ok <=>
              /\ articles[i].n <= TrimmedLen(articles[i].meta_description)
              /\ TrimmedLen(articles[i].meta_description) <= articles[i].m
        /\ outcomes[i].d.meta_len = TrimmedLen(articles[i].meta_description)
        /\ (articles[i].n = 120 /\ articles[i].m = 160) =>
              /\ articles[i].meta_description \in {Meta(120), Meta(140), Meta(160)}
                    => outcomes[i].ok
              /\ articles[i].meta_description
                    \in {Meta(100), Meta(119), Meta(161), Meta(165), PyNone}
                    => ~outcomes[i].ok

\* C14 happens: 160 characters with whitespace around them pass the defaults.
C14_Witness ==
    \E i \in Checked("check_meta_description") :
        /\ articles[i].n = DEFAULT_MIN_LEN
        /\ articles[i].m = DEFAULT_MAX_LEN
        /\ articles[i].meta_description = PyStr("\n" \o Rep("m", 160) \o "\t ")
        /\ outcomes[i].ok
        /\ outcomes[i].d.meta_len = 160

\* the first sentence of a text: the stripped text up to the first ".", "!" or
\* "?" that whitespace follows
SentenceOf(text) ==
    Strip(FirstPart(Strip(text),
                    {i \in 2..Len(Strip(text)) :
                        /\ Ch(Strip(text), i) \in Space
                        /\ Ch(Strip(text), i - 1) \in {".", "!", "?"}}))

\* the number of word tokens of s
TokensIn(s) ==
    Cardinality({i \in 1..Len(s) :
        Ch(s, i) \in WordChar /\ (i = 1 \/ Ch(s, i - 1) \notin WordChar)})

\* a banned intro phrase lies within the first 150 characters of the text
BannedInIntro(text) ==
    \E k \in 1..Len(BANNED_INTRO_PHRASES) :
        \E i \in 1..(151 - Len(BANNED_INTRO_PHRASES[k])) :
            ILitAt(Strip(text), i, BANNED_INTRO_PHRASES[k])

\* the four conditions of the direct answer, on the first sentence s of text
DirectAnswerConditions(text, s) ==
    /\ s # ""
    /\ Ch(s, Len(s)) # "?"
    /\ \A i \in 1..120 : i <= Len(s) => Ch(s, i) # "?"
    /\ TokensIn(s) >= 6
    /\ ~BannedInIntro(text)

\* C15: check_direct_answer passes exactly when the first sentence of the plain
\* text is non-empty, does not end in "?" and has no "?" in its first 120
\* characters, has at least 6 word tokens, and the first 150 characters of the
\* plain text contain no banned intro phrase, whatever the case of the letters.
C15_DirectAnswerIffFourConditions ==
    \A i \in Checked("check_direct_answer") :
        outcomes[i].ok <=>
            DirectAnswerConditions(articles[i].plain_text,
                                   SentenceOf(articles[i].plain_text))

\* the calls of analyze_article that returned with nothing failing on the way
CleanCalls == {i \in ReturnedCalls : outcomes[i].fault = "none"}

FaqEvidence(i) == outcomes[i].res.details.faq

\* C16: the faq verdict is the disjunction of three signals: an FAQ hint in the
\* plain text, a dl element in the tree, a JSON-LD script in the tree whose
\* content contains "FAQPage".  Each alone suffices; an article with the script
\* as its only signal passes through analyze_article.
C16_FaqIsDisjunctionOfThreeSignals ==
    \A i \in CleanCalls :
        /\ outcomes[i].res.faq =
              (\/ FaqEvidence(i).text_hint
               \/ FaqEvidence(i).has_dl
               \/ FaqEvidence(i).has_faq_schema)
        /\ \A hint, dl, schema \in BOOLEAN :
              articles[i].content_html = Html(FaqDoc(hint, dl, schema)) =>
                 /\ FaqEvidence(i) = [text_hint |-> hint, has_dl |-> dl,
                                      has_faq_schema |-> schema]
                 /\ outcomes[i].res.faq = (hint \/ dl \/ schema)
        /\ \A script \in NoFaqSchemas :
              articles[i].content_html = Html(<<P(Intros.direct_def), script>>)
                 => ~outcomes[i].res.faq

\* C16 happens: an article whose only FAQ signal is the JSON-LD script passes.
C16_Witness ==
    \E i \in CleanCalls :
        /\ articles[i].content_html = Html(FaqDoc(FALSE, FALSE, TRUE))
        /\ outcomes[i].res.faq
        /\ ~FaqEvidence(i).text_hint
        /\ ~FaqEvidence(i).has_dl

\* the element is one of the containers normalization is to remove
IsNoise(n) ==
    \/ n.tag \in {"nav", "header", "footer", "aside", "form", "script", "noscript"}
    \/ n.ariaModal = "true"

\* every text node below the nodes
RECURSIVE TextsBelow(_)
TextsBelow(nodes) ==
    IF nodes = <<>> THEN {}
    ELSE (IF Head(nodes).tag = "#text" THEN {Strip(Head(nodes).text)}
          ELSE TextsBelow(Head(nodes).kids))
         \cup TextsBelow(Tail(nodes))

\* the texts inside the containers of a document
NoiseTexts(tree) ==
    UNION { TextsBelow(Descendants(tree)[k].kids) :
              k \in {j \in 1..Len(Descendants(tree)) : IsNoise(Descendants(tree)[j])} }

\* C17: after normalization no nav, header, footer, aside, form, script, noscript
\* or aria-modal="true" element remains in the tree at any depth, no text of one
\* is part of the plain text, and what they held contributes to no verdict or
\* count: the result is that of the document without the container.
C17_NoiseIsRemovedBeforeChecks ==
    \A i \in CleanCalls :
        /\ \A k \in 1..Len(Descendants(outcomes[i].soup)) :
              ~IsNoise(Descendants(outcomes[i].soup)[k])
        /\ \A t \in NoiseTexts(articles[i].content_html.tree) :
              t # "" => ~Contains(outcomes[i].plain, t)
        /\ \A kind \in NoiseKinds, depth \in {0, 2} :
              articles[i].content_html = Html(NoiseDoc(kind, depth)) =>
                 outcomes[i].res =
                    analyze_article(Html(BareDoc), articles[i].meta_description,
                                    articles[i].title, strict, "none").res

\* C18: each count-threshold check passes exactly when its count reaches its
\* threshold and records count and threshold in its evidence: headings iff the
\* number of h2 elements >= min_h2 (3), lists iff the number of ul plus ol
\* elements >= min_lists (1), tables iff the number of table elements >=
\* min_tables (1), word_count_ok iff the number of word tokens >= min_words
\* (500): 2 headings or 499 words fail, 3 headings or 500 words pass.
C18_CountReachesThreshold ==
    /\ \A i \in Checked("check_h2_headings") :
          /\ outcomes[i].ok <=> (outcomes[i].d.h2_count >= articles[i].n)
          /\ outcomes[i].d.min_h2 = articles[i].n
          /\ \A k \in 0..4 : articles[i].soup = HeadingTree(k) => outcomes[i].d.h2_count = k
          /\ (articles[i].n = 3 /\ articles[i].soup = HeadingTree(2)) => ~outcomes[i].ok
          /\ (articles[i].n = 3 /\ articles[i].soup = HeadingTree(3)) => outcomes[i].ok
    /\ \A i \in Checked("check_lists") :
          /\ outcomes[i].ok <=> (outcomes[i].d.list_count >= articles[i].n)
          /\ outcomes[i].d.min_lists = articles[i].n
          /\ \A ul, ol \in 0..2 :
                articles[i].soup = ListTree(ul, ol) => outcomes[i].d.list_count = ul + ol
    /\ \A i \in Checked("check_tables") :
          /\ outcomes[i].ok <=> (outcomes[i].d.table_count >= articles[i].n)
          /\ outcomes[i].d.min_tables = articles[i].n
          /\ \A k \in 0..2 : articles[i].soup = TableTree(k) => outcomes[i].d.table_count = k
    /\ \A i \in Checked("check_word_count") :
          /\ outcomes[i].ok <=> (outcomes[i].d.word_count >= articles[i].n)
          /\ outcomes[i].d.min_words = articles[i].n
          /\ outcomes[i].d.word_count = TokensIn(articles[i].plain_text)
          /\ (articles[i].n = 500 /\ articles[i].plain_text = Rep("w ", 499)) => ~outcomes[i].ok
          /\ (articles[i].n = 500 /\ articles[i].plain_text = Rep("w ", 500)) => outcomes[i].ok

\* C18 happens: a text of exactly 500 words passes the default threshold.
C18_Witness ==
    \E i \in Checked("check_word_count") :
        /\ articles[i].n = DEFAULT_MIN_WORDS
        /\ articles[i].plain_text = Rep("w ", 500)
        /\ outcomes[i].ok
        /\ outcomes[i].d.word_count = 500

\* the same call of analyze_article with the other value of strict
OtherMode(i) ==
    analyze_article(articles[i].content_html, articles[i].meta_description,
                    articles[i].title, ~strict, outcomes[i].fault)

\* the criteria strict is not to touch
StrictFree ==
    {"direct_answer", "headings", "facts", "faq", "lists", "tables",
     "word_count_ok", "meta_ok"}

\* the other call returned, with the same verdicts on these criteria
SameStrictFree(res, other) ==
    /\ ~other.raised
    /\ \A c \in StrictFree : res[c] = other.res[c]

\* the other call passes sources, and agrees on the criteria strict is not to touch
SourcesPassOnly(res, other) == other.res.sources /\ SameStrictFree(res, other)

\* C19: strict affects only the definition and sources criteria: for every
\* content_html, meta_description and title, the verdicts direct_answer,
\* headings, facts, faq, lists, tables, word_count_ok and meta_ok are the same
\* with strict = true and with strict = false.
C19_StrictTouchesDefinitionAndSourcesOnly ==
    \A i \in ReturnedCalls : SameStrictFree(outcomes[i].res, OtherMode(i))

\* C19 happens: a strict call whose sources verdict differs from that of the
\* same call without strict, the eight other verdicts being the same.
C19_Witness ==
    \E i \in CleanCalls :
        /\ strict
        /\ ~outcomes[i].res.sources
        /\ SourcesPassOnly(outcomes[i].res, OtherMode(i))

\* row i of the report is the row of article i, as that writer writes it
RowInPlace(report, i) ==
    report.rows[i] = IF report.file = "csv" THEN CsvRow(rows[i]) ELSE SanitizeRow(rows[i])

\* C20: report rows are delivered in the original input order: for every batch,
\* the i-th row of each written report (the CSV and the HTML payload) belongs to
\* the i-th loaded article, whatever the scores are.
C20_ReportsKeepInputOrder ==
    pc = "written" =>
        \A r \in 1..Len(written) :
            /\ Len(written[r].rows) = Len(articles)
            /\ \A i \in 1..Len(articles) :
                  /\ written[r].rows[i].url = Strip(articles[i].url.s)
                  /\ RowInPlace(written[r], i)

\* C21: an article with at least 500 words, 4 h2 headings, 3 number+unit facts,
\* a "Zdroje" section with a link to a whitelisted domain, an FAQ heading, 2
\* lists, 1 table, a 145-character meta description and a non-question 8-word
\* first sentence holding a valid "X je" definition gets score 10 and no
\* recommendation, in non-strict mode.
C21_ScenarioScoresTen ==
    \A i \in CleanCalls :
        (~strict /\ articles[i] \in ScenarioInputs) =>
            /\ outcomes[i].res.score = 10
            /\ outcomes[i].res.recommendations = <<>>

\* the ten criterion columns of a row
CriterionColumns == {CRITERIA[k] : k \in 1..Len(CRITERIA)}

\* the sum of the ten criterion columns
SumOfColumns(row) ==
    row.direct_answer + row.definition + row.headings + row.facts + row.sources
    + row.faq + row.lists + row.tables + row.word_count_ok + row.meta_ok

\* the row shows the result: verdicts, score and the five counts
RowShowsResult(row, result) ==
    /\ \A c \in CriterionColumns : row[c] = (IF result[c] THEN 1 ELSE 0)
    /\ row.score = result.score
    /\ row.score = SumOfColumns(row)
    /\ row.word_count = result.details.word_count_ok.word_count
    /\ row.h2_count = result.details.headings.h2_count
    /\ row.list_count = result.details.lists.list_count
    /\ row.table_count = result.details.tables.table_count
    /\ row.meta_len = result.details.meta_ok.meta_len

\* the result analyze_article produces for the article of a call
ProducedFor(c) ==
    analyze_article(Html(c.soup), c.meta_description, c.title, strict, "none").res

\* C22: for every AuditResult analyze_article produces, build_report_row yields
\* a row whose ten criterion columns are 1 exactly for the true verdicts, whose
\* score is the result's score and so the sum of the ten columns, and whose
\* word_count, h2_count, list_count, table_count and meta_len are the counts in
\* details; the AuditResult is after the call what it was before.
C22_RowShowsTheResult ==
    \A i \in Checked("build_report_row") :
        /\ RowShowsResult(outcomes[i].row, outcomes[i].result)
        /\ outcomes[i].result = ProducedFor(articles[i])

\* C22 happens: a row for a result with passed and failed criteria and counts
\* that are not zero.
C22_Witness ==
    \E i \in Checked("build_report_row") :
        /\ outcomes[i].row.score = 6
        /\ outcomes[i].row.word_count >= 500
        /\ outcomes[i].row.h2_count = 2
        /\ outcomes[i].row.headings = 0
        /\ outcomes[i].row.lists = 1
        /\ outcomes[i].row.list_count = 1
        /\ outcomes[i].row.meta_len = 140

\* C23: whenever the plain text of the normalized document is empty, the checks
\* direct_answer, definition, facts and word_count_ok fail, for every tree,
\* title, meta description and value of strict.
C23_EmptyTextFailsTextChecks ==
    \A i \in ReturnedCalls :
        outcomes[i].plain = "" =>
            /\ ~outcomes[i].res.direct_answer
            /\ ~outcomes[i].res.definition
            /\ ~outcomes[i].res.facts
            /\ ~outcomes[i].res.word_count_ok

\* C23 happens: markup with empty headings, a list and a table, and no text:
\* the tree checks pass, the four text checks fail.
C23_Witness ==
    \E i \in CleanCalls :
        /\ outcomes[i].plain = ""
        /\ outcomes[i].soup # <<>>
        /\ outcomes[i].res.headings
        /\ outcomes[i].res.lists
        /\ outcomes[i].res.tables
        /\ ~outcomes[i].res.direct_answer
        /\ ~outcomes[i].res.definition
        /\ ~outcomes[i].res.facts
        /\ ~outcomes[i].res.word_count_ok

\* the part of s in front of the first character of the set (all of s without one)
UpTo(s, stops) ==
    IF \E k \in 1..Len(s) : Ch(s, k) \in stops
    THEN SubSeq(s, 1, MinOf({k \in 1..Len(s) : Ch(s, k) \in stops}) - 1)
    ELSE s

\* the host of an http(s) URL, in lower case and without the port ("" for others)
HostOfLower(u) ==
    IF LitAt(u, 1, "https://") THEN UpTo(SubSeq(u, 9, Len(u)), {"/", "?", "#", ":"})
    ELSE IF LitAt(u, 1, "http://") THEN UpTo(SubSeq(u, 8, Len(u)), {"/", "?", "#", ":"})
    ELSE ""

HostOf(href) == HostOfLower(LowerStr(href))

\* the whitelisted domains, with and without "www."
WhitelistedHosts ==
    {SOURCE_DOMAIN_ALTS[k] : k \in 1..Len(SOURCE_DOMAIN_ALTS)}
    \cup {"www." \o SOURCE_DOMAIN_ALTS[k] : k \in 1..Len(SOURCE_DOMAIN_ALTS)}

\* the links of a document whose host is whitelisted
LinksToWhitelist(soup) ==
    {k \in 1..Len(Hrefs(soup)) : HostOf(Hrefs(soup)[k]) \in WhitelistedHosts}

\* C24: a link counts as a whitelist match in the sources check only if the host
\* of its URL is a whitelisted domain (with or without "www."): a host that only
\* starts with a whitelisted domain, or a whitelisted URL in the path or query,
\* does not count, and every link whose host is whitelisted counts.
C24_WhitelistMatchesHostsOnly ==
    \A i \in Checked("check_sources") :
        outcomes[i].d.whitelisted_links_count
            = Cardinality(LinksToWhitelist(articles[i].soup))
\* the dict items of the pages requested so far, in the order of the requests
RECURSIVE DictItemsOf(_)
DictItemsOf(log) ==
    IF log = <<>> THEN <<>>
    ELSE DictItemsOf(SubSeq(log, 1, Len(log) - 1))
         \o SelectSeq(log[Len(log)].data, LAMBDA x : x.isDict)

\* the page ends the loop: the request failed, or gave no list, or an empty one
EndsLoop(request) == request.kind # "list" \/ request.data = <<>>

\* the article is the one of the item: a placeholder with empty content and meta
\* description when the item has neither url nor link, its article otherwise
ArticleOfItem(article, item) ==
    IF SafeStr(item.url) = "" /\ SafeStr(item.link) = ""
    THEN article.content_html = Html(<<>>) /\ article.meta_description = PyStr("")
    ELSE /\ article.url = PyStr(Strip(IF SafeStr(item.url) # "" THEN SafeStr(item.url)
                                      ELSE SafeStr(item.link)))
         /\ article.content_html.tree = item.content_html.tree

WpRunAsClaimed ==
    LET limit == IF loader.max_pages > 1 THEN loader.max_pages ELSE 1
        items == DictItemsOf(loader.log)
    IN /\ Len(loader.log) <= limit
       /\ \A k \in 1..Len(loader.log) :
             /\ loader.log[k].page = k
             /\ loader.log[k].per_page \in 1..100
             /\ loader.per_page \in 1..100 => loader.log[k].per_page = loader.per_page
             /\ loader.per_page > 100 => loader.log[k].per_page = 100
             /\ k < Len(loader.log) => ~EndsLoop(loader.log[k])
       /\ pc = "loaded" =>
             Len(loader.log) = limit \/ (loader.log # <<>> /\ EndsLoop(loader.log[Len(loader.log)]))
       /\ Len(articles) = Len(items)
       /\ \A j \in 1..Len(articles) : ArticleOfItem(articles[j], items[j])

\* C25: load_articles_from_wp terminates after at most max(1, max_pages) page
\* requests; it requests the pages 1, 2, 3, ... in order with per_page clamped to
\* [1, 100]; it stops at the first page that fails to fetch, is no list or is
\* empty, and returns the articles of the pages before; every dict item gives
\* exactly one article (a placeholder if it cannot be normalized), other items none.
C25_WpLoaderStopsAndKeepsPages ==
    /\ [](loader.fn = "wp" => WpRunAsClaimed)
    /\ (loader.fn = "wp") ~> (pc = "loaded")

\* C25 happens: the first page gave a post without url, a value that is no dict
\* and a post; the request of the second page failed; two articles are returned.
C25_Witness ==
    /\ pc = "loaded"
    /\ loader.fn = "wp"
    /\ loader.per_page = 500
    /\ loader.max_pages = 3
    /\ Len(loader.log) = 2
    /\ Len(loader.log[1].data) = 3
    /\ ~loader.log[1].data[1].isDict
    /\ loader.log[2].kind = "raised"
    /\ Len(articles) = 2
    /\ articles[1].content_html = Html(<<>>)
    /\ articles[2].url = PyStr("https://example.sk/?p=7")

\* the line of a urls file names a url: it is not blank and no comment
IsUrlLine(line) == Strip(line) # "" /\ Ch(Strip(line), 1) # "#"

\* analyze_article gives the result 0 with all ten verdicts false
ScoredZero(out) ==
    /\ ~out.raised
    /\ out.res.score = 0
    /\ \A k \in 1..Len(CRITERIA) : ~out.res[CRITERIA[k]]

\* the article is a placeholder that analyze_article scores 0, strict or not
IsFailedPlaceholder(a) ==
    /\ a.content_html = Html(<<>>)
    /\ a.meta_description = PyStr("")
    /\ \A st \in BOOLEAN :
          ScoredZero(analyze_article(a.content_html, a.meta_description, a.title, st, "none"))

\* C26: load_articles_from_urls_file returns exactly one article per line that is
\* neither blank nor a comment, in the order of the file; a url whose fetch or
\* extraction fails gives a placeholder with empty content and meta description,
\* which analyze_article scores 0 with all ten verdicts false; a failure does not
\* stop the fetching of the later urls.
C26_OneArticlePerUrlLine ==
    (pc = "loaded" /\ loader.fn = "urls") =>
        LET kept == SelectSeq(loader.lines, IsUrlLine)
        IN /\ Len(articles) = Len(kept)
           /\ Len(loader.log) = Len(kept)
           /\ \A k \in 1..Len(kept) :
                 /\ articles[k].url = PyStr(Strip(kept[k]))
                 /\ loader.log[k].url = Strip(kept[k])
                 /\ loader.log[k].raised => IsFailedPlaceholder(articles[k])

\* C26 happens: a file with a comment and two urls; the first fetch failed, the
\* second gave a page.
C26_Witness ==
    /\ pc = "loaded"
    /\ loader.fn = "urls"
    /\ Len(loader.lines) = 3
    /\ \E k \in 1..3 : Strip(loader.lines[k]) # "" /\ ~IsUrlLine(loader.lines[k])
    /\ Len(articles) = 2
    /\ loader.log[1].raised
    /\ ~loader.log[2].raised
    /\ articles[2].content_html # Html(<<>>)

\* C27: for a JSON file whose top is a list, or a dict with a list under
\* "articles", load_articles_from_json returns one article per dict element, in
\* order, and none for the other elements; a dict that cannot be normalized (it
\* has neither url nor link) gives a placeholder with empty content and meta
\* description.
C27_OneArticlePerDictElement ==
    (loader.fn = "json" /\ pc # "load" /\ loader.top \in {"list", "articles"}) =>
        LET dicts == SelectSeq(loader.data, LAMBDA x : x.isDict)
        IN /\ pc = "loaded"
           /\ Len(articles) = Len(dicts)
           /\ \A j \in 1..Len(dicts) : ArticleOfItem(articles[j], dicts[j])

\* C27 happens: under "articles" a value that is no dict, a dict without url and
\* link, and an article: the placeholder of index 1, then the article.
C27_Witness ==
    /\ pc = "loaded"
    /\ loader.fn = "json"
    /\ loader.top = "articles"
    /\ Len(loader.data) = 3
    /\ ~loader.data[1].isDict
    /\ Len(articles) = 2
    /\ articles[1].url = PyStr("(invalid) index=1")
    /\ articles[1].content_html = Html(<<>>)
    /\ articles[2].url = PyStr("https://example.sk/kreatin")

SetOf(seq) == {seq[k] : k \in 1..Len(seq)}

\* tight is no more lenient than loose: what it passes on definition and sources
\* loose passes, its score is not higher, and it recommends all that loose does
NoMoreLenient(tight, loose) ==
    /\ tight.definition => loose.definition
    /\ tight.sources => loose.sources
    /\ tight.score <= loose.score
    /\ SetOf(loose.recommendations) \subseteq SetOf(tight.recommendations)

\* the call without strict returned too, and the strict one is no more lenient
StrictTightens(res, other) == ~other.raised /\ NoMoreLenient(res, other.res)

\* the strict call lost definition or sources, and with it a point
StrictLost(res, other, c) ==
    /\ ~res[c]
    /\ other.res[c]
    /\ res.score < other.res.score
    /\ SetOf(res.recommendations) # SetOf(other.res.recommendations)

\* C28: strict only tightens: for every content_html, meta_description and
\* title, a definition or sources verdict that is true under strict is true
\* without it, the strict score is at most the non-strict score, and every
\* recommendation of the non-strict result is in the strict result.
C28_StrictOnlyTightens ==
    strict => \A i \in ReturnedCalls : StrictTightens(outcomes[i].res, OtherMode(i))

\* C28 happens: a strict call that fails definition where the same call without
\* strict passes it, and one that so fails sources; each scores lower.
C28_Witness ==
    /\ strict
    /\ \E i \in CleanCalls :
          \/ StrictLost(outcomes[i].res, OtherMode(i), "definition")
          \/ StrictLost(outcomes[i].res, OtherMode(i), "sources")

\* the least k with k * d >= n
CeilDiv(n, d) == CHOOSE k \in 0..n : k * d >= n /\ \A j \in 0..(k - 1) : j * d < n

\* the rows of the payload the filter keeps
Filtered == SelectSeq(browser.rows, LAMBDA r : r \in SetOf(FilterRows(browser.rows, browser.q)))

\* seq is in the order of the sort mode
InOrder(seq, mode) ==
    \A k \in 1..(Len(seq) - 1) :
        IF mode \in {"score_desc", "score_asc"}
        THEN \/ (IF mode = "score_desc" THEN seq[k].score > seq[k + 1].score
                 ELSE seq[k].score < seq[k + 1].score)
             \/ seq[k].score = seq[k + 1].score /\ ~StrLess(seq[k + 1].title, seq[k].title)
        ELSE IF mode = "title_asc" THEN ~StrLess(seq[k + 1].title, seq[k].title)
        ELSE ~StrLess(seq[k].title, seq[k + 1].title)

PagerAsClaimed(b, n) ==
    LET pages == IF CeilDiv(n, b.pageSize) > 1 THEN CeilDiv(n, b.pageSize) ELSE 1
        first == b.pageIndex * b.pageSize
        last == IF n < (b.pageIndex + 1) * b.pageSize THEN n ELSE (b.pageIndex + 1) * b.pageSize
    IN /\ b.pageIndex \in 0..(pages - 1)
       /\ b.pageInfo = <<b.pageIndex + 1, pages>>
       /\ Len(b.view) = n
       /\ SetOf(b.view) = SetOf(Filtered)
       /\ InOrder(b.view, b.sort)
       /\ b.shown = [k \in 1..(last - first) |-> b.view[first + k]]
       /\ b.event \in {"filter", "sort", "size"} => b.pageIndex = 0

\* C29: in the pager of the HTML report, after any sequence of previous, next,
\* page-select, page-size, sort and filter events, the render shows a page index
\* in [0, pageCount - 1] with pageCount = max(1, ceil(filtered rows / pageSize));
\* the rows shown are the filtered and sorted rows from pageIndex * pageSize up to
\* min(filtered rows, (pageIndex + 1) * pageSize); a filter, sort or page size
\* change resets the page index to 0.
C29_PagerStaysOnAPage == pc = "report" => PagerAsClaimed(browser, Len(Filtered))

\* C29 happens: with 21 rows sorted by title the page size is changed to 20: the
\* first page of two is shown, with 20 rows.
C29_Witness ==
    /\ pc = "report"
    /\ browser.event = "size"
    /\ browser.pageSize = 20
    /\ browser.pageInfo = <<1, 2>>
    /\ Len(browser.shown) = 20
    /\ browser.sort = "title_desc"
    /\ browser.q = ""

\* C30: joining and splitting recommendations round-trips: for every AuditResult
\* analyze_article produces, the recommendations cell _join_recommendations
\* writes, split on "|" in the HTML report, gives back the recommendation strings
\* in their order, so the count badge of the row is 10 - score.
C30_RecommendationsRoundTrip ==
    \A i \in Checked("recCount") :
        /\ outcomes[i].items = outcomes[i].result.recommendations
        /\ outcomes[i].badge = 10 - outcomes[i].result.score
        /\ outcomes[i].result = ProducedFor(articles[i])

\* C30 happens: a result with score 6: the four recommendations come back, the
\* badge shows 4.
C30_Witness ==
    \E i \in Checked("recCount") :
        /\ outcomes[i].result.score = 6
        /\ outcomes[i].badge = 4
        /\ Len(outcomes[i].items) = 4
        /\ outcomes[i].items[1] = RECOMMENDATIONS_TEXT.direct_answer
        /\ Contains(outcomes[i].row.recommendations, " | ")

====
